---- MODULE Spec2Model ----
(***************************************************************************)
(* The backend InfisicalApiClient: construction from configuration, the    *)
(* client-credentials login (authenticateWithClientCredentials), token     *)
(* validity (ensureValidToken) and the request executor with its retries   *)
(* (makeRequest, shouldRetry).  Every operation of the facade goes through *)
(* makeRequest; an operation of the model is one logical request.          *)
(*                                                                         *)
(* One action of the model is one turn of the event loop: the code that    *)
(* runs between two suspensions on a fetch or a setTimeout.  An await of   *)
(* a promise that is already settled continues in the same turn.           *)
(***************************************************************************)
EXTENDS Integers, Sequences, FiniteSets, TLC

\* ---------------------------------------------------------------- bounds
NumOps == 2      \* logical requests issued on the one client
MaxNow == 2      \* the clock runs 1..MaxNow (seconds)
MaxLogins == 3   \* login calls the model follows
MaxSecrets == 3  \* secrets, native and imported, the remote service has at a path
MaxImports == 2  \* import blocks the remote service has at a path

Ops == 1..NumOps

\* ------------------------------------------------------ program constants
maxRetries == 3
retryDelay == 1000
retryStatusCodes == {408, 429, 500, 502, 503, 504}
SafetyMarginSeconds == 300

\* options.retry !== false; no caller of makeRequest passes retry
retry == TRUE

\* ------------------------------------------------------------ environment
\* an optional value: << >> is undefined, <<x>> is x
Undefined == << >>
Some(x) == <<x>>

\* the statuses the remote service answers with
Statuses == {200, 204, 400, 401, 503}
\* no status code: shouldRetry(error, null)
NoStatus == 0
\* expiresIn (seconds) of a login response
ExpiresInValues == {300, 301, 3600}

\* the configuration handed to the constructor
Configs ==
    {[infisical |-> FALSE, auth_token |-> "absent", universalAuth |-> "absent"]}
    \cup [infisical : {TRUE},
          auth_token : {"absent", "empty", "ok"},
          universalAuth : {"absent", "incomplete", "ok"}]

\* the body of a non-OK response: whether its content type is JSON, whether
\* it can be read (and parsed, when JSON), whether the parsed object has a
\* message, and whether its text contains 'Invalid credentials'
Bodies ==
    [json : BOOLEAN, readable : BOOLEAN, message : BOOLEAN,
     invalidCredentials : BOOLEAN]
\* the bodies the remote service sends with a status: a plain-text detail after
\* a non-OK status; the body of an OK answer is not an error body
NoBody ==
    [json |-> TRUE, readable |-> TRUE, message |-> FALSE,
     invalidCredentials |-> FALSE]
BodiesOf(status) ==
    IF status >= 200 /\ status <= 299
    THEN {NoBody}
    ELSE {b \in Bodies : b.readable /\ ~b.json /\ ~b.message}

VARIABLES
    config,                 \* the constructor's argument
    client,                 \* "unbuilt", "ready" or "failed" (constructor threw)
    constructError,         \* what the constructor threw
    credentials,            \* this.credentials
    tokenRefreshInProgress, \* this.tokenRefreshInProgress
    now,                    \* Date.now() in seconds
    loginCalls,             \* POST /api/v1/auth/universal-auth/login issued
    pc,                     \* where each logical request stands
    retryCount,             \* makeRequest's retryCount of the running attempt
    sentToken,              \* the bearer token of the request in flight
    lastStatus,             \* status of the response that ended the attempt
    prior503,               \* every earlier attempt ended with a 503 response
    delays,                 \* the backoff delays requested so far (ms)
    result                  \* what the caller received

\* the facade operations of InfisicalApiClient and the data they work on
VARIABLES
    remoteSecrets,          \* the secrets the remote service stores at the path
    remoteImports,          \* the import blocks the remote service has there
    facadeOp,               \* the facade operation invoked, "none" before
    facadeArgs,             \* its workspaceId, path and environment
    requests,               \* the options of the makeRequest calls it made
    facadePending,          \* which of its makeRequest calls it awaits (0: none)
    secretsResponse,        \* getSecrets' secretsResponse
    requestOutcome,         \* how the last makeRequest call ended
    facadeResult            \* what the operation's caller received

\* the error classifier applied to one response
VARIABLES
    response,               \* the non-OK Response handed to parseErrorResponse
    classified              \* the Error parseErrorResponse returned

\* the router of the backend plugin
VARIABLES
    listed,                 \* the secrets the last listing showed to the user
    httpRequest,            \* the request the router received
    apiCalls,               \* the operations the router invoked on infisicalApi
    httpResponse            \* the response the router sent

\* the InfisicalClient of the frontend plugin
VARIABLES
    uiCall,                 \* the operation invoked and its workspace id
    uiStage,                \* "idle", "baseUrl", "fetch" or "settled"
    uiFetches,              \* calls of fetchApi.fetch
    backendAnswer,          \* the response of the backend plugin
    uiResult,               \* what the operation's caller received
    unhandledRejection      \* the error of a rejected promise nobody awaits

\* the body updateSecret sends
VARIABLES
    updateCall,             \* the arguments updateSecret was called with
    patchRequest            \* the method, path and body handed to fetch

\* the variables of the secrets view: its props and its navigation state
VARIABLES
    mounted,
    secretPath,
    isEnvironmentLocked,
    selectedEnvironment,
    basePath,
    currentPath,
    allowNavigation

\* the variables of the routing of a frontend request in the backend plugin
VARIABLES
    clientFetch,
    dispatched

\* the variables of the request executor and the token
apiVars == <<config, client, constructError, credentials,
             tokenRefreshInProgress, now, loginCalls, pc, retryCount,
             sentToken, lastStatus, prior503, delays, result>>

facadeVars == <<remoteSecrets, remoteImports, facadeOp, facadeArgs, requests,
                facadePending, secretsResponse, requestOutcome, facadeResult>>

classifierVars == <<response, classified>>

routerVars == <<listed, httpRequest, apiCalls, httpResponse>>

uiVars == <<uiCall, uiStage, uiFetches, backendAnswer, uiResult,
            unhandledRejection>>

updateVars == <<updateCall, patchRequest>>

viewVars == <<mounted, secretPath, isEnvironmentLocked, selectedEnvironment, basePath, currentPath, allowNavigation>>

routingVars == <<clientFetch, dispatched>>

\* the variables of the layers around the request executor
outerVars == <<facadeVars, classifierVars, routerVars, uiVars, updateVars, viewVars, routingVars>>

vars == <<apiVars, outerVars>>

clientVars == <<config, client, constructError>>

DateNow == now * 1000

NoCredentials ==
    [type |-> "none", apiToken |-> Undefined, clientId |-> Undefined,
     clientSecret |-> Undefined, accessToken |-> Undefined,
     tokenExpiresAt |-> Undefined]

\* ------------------------------------------------------------ construction
\* config.getConfig('infisical') throws when the section is missing
getBaseUrlFromConfig(cfg) ==
    IF cfg.infisical THEN [ok |-> TRUE, error |-> "none"]
    ELSE [ok |-> FALSE, error |-> "BaseUrlError"]

Rejected(error) == [ok |-> FALSE, error |-> error, creds |-> NoCredentials]

Accepted(creds) == [ok |-> TRUE, error |-> "none", creds |-> creds]

ApiTokenCredentials ==
    [NoCredentials EXCEPT !.type = "api-token", !.apiToken = Some(<<"api", 0>>)]

ClientCredentials ==
    [NoCredentials EXCEPT !.type = "client-credentials",
                          !.clientId = Some("id"),
                          !.clientSecret = Some("secret")]

\* mutant: universalAuth is looked at before auth_token
getCredentialsUniversalAuthFirst(cfg) ==
    IF cfg.universalAuth # "absent"
    THEN IF cfg.universalAuth = "ok" THEN Accepted(ClientCredentials)
         ELSE Rejected("ConfigValueError")
    ELSE IF cfg.auth_token # "absent"
    THEN IF cfg.auth_token = "ok" THEN Accepted(ApiTokenCredentials)
         ELSE Rejected("ConfigValueError")
    ELSE Rejected("MissingCredentials")

\* mutant: no throw when no authentication method is configured
getCredentialsNoThrow(cfg) ==
    IF cfg.auth_token # "absent"
    THEN IF cfg.auth_token = "ok" THEN Accepted(ApiTokenCredentials)
         ELSE Rejected("ConfigValueError")
    ELSE IF cfg.universalAuth # "absent"
    THEN IF cfg.universalAuth = "ok" THEN Accepted(ClientCredentials)
         ELSE Rejected("ConfigValueError")
    ELSE Accepted([NoCredentials EXCEPT !.type = "api-token"])

\* mutant: a configuration with both methods is rejected
getCredentialsRejectBoth(cfg) ==
    IF cfg.auth_token # "absent" /\ cfg.universalAuth # "absent"
    THEN Rejected("ContradictoryCredentials")
    ELSE IF cfg.auth_token # "absent"
    THEN IF cfg.auth_token = "ok" THEN Accepted(ApiTokenCredentials)
         ELSE Rejected("ConfigValueError")
    ELSE IF cfg.universalAuth # "absent"
    THEN IF cfg.universalAuth = "ok" THEN Accepted(ClientCredentials)
         ELSE Rejected("ConfigValueError")
    ELSE Rejected("MissingCredentials")

\* has(...) finds the section, getString throws when a value is missing
getCredentialsFromConfig(cfg) ==
    IF cfg.auth_token # "absent"
    THEN IF cfg.auth_token = "ok" THEN Accepted(ApiTokenCredentials)
         ELSE Rejected("ConfigValueError")
    ELSE IF cfg.universalAuth # "absent"
    THEN IF cfg.universalAuth = "ok" THEN Accepted(ClientCredentials)
         ELSE Rejected("ConfigValueError")
    ELSE Rejected("MissingCredentials")

\* new InfisicalApiClient({config, logger})
Construct ==
    /\ client = "unbuilt"
    /\ LET u == getBaseUrlFromConfig(config)
           r == IF u.ok THEN getCredentialsFromConfig(config)
                ELSE Rejected(u.error)
       IN  /\ client' = IF r.ok THEN "ready" ELSE "failed"
           /\ constructError' = r.error
           /\ credentials' = r.creds
    /\ UNCHANGED <<config, tokenRefreshInProgress, now, loginCalls, pc,
                   retryCount, sentToken, lastStatus, prior503, delays, result>>
    /\ UNCHANGED outerVars

\* ----------------------------------------------------------------- errors
NoError ==
    [origin |-> "none", name |-> "none", status |-> NoStatus,
     text |-> "none", invalidCredentials |-> FALSE, attempt |-> 0]

\* the Error thrown during attempt rc
ErrorOf(origin, name, status, text, inv, rc) ==
    [origin |-> origin, name |-> name, status |-> status, text |-> text,
     invalidCredentials |-> inv, attempt |-> rc]

NoResult == [kind |-> "none", error |-> NoError]

IsOk(status) == status >= 200 /\ status <= 299

\* mutant: a 409 with a text body gives the generic error
parseErrorResponseNoConflict(status, body, rc) ==
    IF ~body.readable
    THEN ErrorOf("api", "Error", status, "Failed to parse error response",
                 FALSE, rc)
    ELSE IF body.json
    THEN ErrorOf("api", "Error", status,
                 IF body.message THEN "message" ELSE "Unknown error",
                 body.message /\ body.invalidCredentials, rc)
    ELSE ErrorOf("api",
                 CASE status = 404 -> "NotFoundError"
                   [] status = 400 -> "InputError"
                   [] OTHER -> "Error",
                 status, "text", body.invalidCredentials, rc)

\* mutant: no try block, the failure to read the body is raised
parseErrorResponseUnguarded(status, body, rc) ==
    IF ~body.readable
    THEN ErrorOf("raised", "SyntaxError", NoStatus, "Unexpected token", FALSE, rc)
    ELSE IF body.json
    THEN ErrorOf("api", "Error", status,
                 IF body.message THEN "message" ELSE "Unknown error",
                 body.message /\ body.invalidCredentials, rc)
    ELSE ErrorOf("api",
                 CASE status = 404 -> "NotFoundError"
                   [] status = 409 -> "ConflictError"
                   [] status = 400 -> "InputError"
                   [] OTHER -> "Error",
                 status, "text", body.invalidCredentials, rc)

\* try { JSON content type: response.json(), generic error with the message
\* or 'Unknown error'; else response.text(), mapped by status } catch {
\* generic error 'Failed to parse error response' }
parseErrorResponse(status, body, rc) ==
    IF ~body.readable
    THEN ErrorOf("api", "Error", status, "Failed to parse error response",
                 FALSE, rc)
    ELSE IF body.json
    THEN ErrorOf("api", "Error", status,
                 IF body.message THEN "message" ELSE "Unknown error",
                 body.message /\ body.invalidCredentials, rc)
    ELSE ErrorOf("api",
                 CASE status = 404 -> "NotFoundError"
                   [] status = 409 -> "ConflictError"
                   [] status = 400 -> "InputError"
                   [] OTHER -> "Error",
                 status, "text", body.invalidCredentials, rc)

\* mutant: the message of the error is not looked at
shouldRetryAnyError(error, statusCode) ==
    \/ error # NoError
    \/ statusCode # NoStatus /\ statusCode \in retryStatusCodes

shouldRetry(error, statusCode) ==
    \/ error # NoError /\ ~error.invalidCredentials
    \/ statusCode # NoStatus /\ statusCode \in retryStatusCodes

\* ------------------------------------------------------------------ token
\* mutant: a token is still taken as valid at the instant of its expiry
isTokenExpiredStrict(creds) ==
    IF creds.accessToken = Undefined \/ creds.tokenExpiresAt = Undefined
    THEN TRUE
    ELSE creds.tokenExpiresAt[1] = 0 \/ DateNow > creds.tokenExpiresAt[1]

\* ensureValidToken's isTokenExpired, at the time Date.now() = DateNow
isTokenExpired(creds) ==
    IF creds.accessToken = Undefined \/ creds.tokenExpiresAt = Undefined
    THEN TRUE
    ELSE creds.tokenExpiresAt[1] = 0 \/ DateNow >= creds.tokenExpiresAt[1]

\* mutant: no look at tokenRefreshInProgress
authenticateWithoutGuard(creds, inProgress) ==
    IF creds.clientId = Undefined \/ creds.clientSecret = Undefined
    THEN "throw"
    ELSE "login"

\* the synchronous part of authenticateWithClientCredentials, what the call
\* does before its first suspension: "wait" (setTimeout 500), "throw" or
\* "login" (the flag is set and the login call is issued)
authenticateWithClientCredentials(creds, inProgress) ==
    IF inProgress THEN "wait"
    ELSE IF creds.clientId = Undefined \/ creds.clientSecret = Undefined
    THEN "throw"
    ELSE "login"

\* mutant: the token is refreshed before every request
ensureValidTokenAlways(creds, inProgress) ==
    IF creds.type # "client-credentials" THEN "proceed"
    ELSE authenticateWithClientCredentials(creds, inProgress)

ensureValidToken(creds, inProgress) ==
    IF creds.type # "client-credentials" THEN "proceed"
    ELSE IF isTokenExpired(creds)
    THEN authenticateWithClientCredentials(creds, inProgress)
    ELSE "proceed"

getAuthorizationHeader(creds, inProgress) ==
    IF creds.type = "api-token" THEN "proceed"
    ELSE ensureValidToken(creds, inProgress)

\* the token getAuthorizationHeader puts after 'Bearer '
BearerToken(creds) ==
    IF creds.type = "api-token" THEN creds.apiToken ELSE creds.accessToken

\* ------------------------------------------------------- request executor
\* mutant: linear backoff
BackoffDelayLinear(rc) == retryDelay * (rc + 1)

BackoffDelay(rc) == retryDelay * 2^rc

\* setTimeout(resolve, retryDelay * 2^retryCount), then makeRequest(retryCount + 1)
Backoff(o, rc) ==
    /\ pc' = [pc EXCEPT ![o] = "backoff"]
    /\ delays' = [delays EXCEPT ![o] = Append(@, BackoffDelay(rc))]
    /\ sentToken' = [sentToken EXCEPT ![o] = Undefined]
    /\ UNCHANGED result

\* mutant: the retry is awaited inside the try block, so the catch of the
\* attempt before sees the failure of this one and schedules a retry of its own
FailCaughtByCaller(o, error) ==
    IF retryCount[o] > 0 /\ retry /\ shouldRetry(error, NoStatus)
    THEN /\ pc' = [pc EXCEPT ![o] = "backoff"]
         /\ delays' = [delays EXCEPT
                          ![o] = Append(@, BackoffDelay(retryCount[o] - 1))]
         /\ sentToken' = [sentToken EXCEPT ![o] = Undefined]
         /\ UNCHANGED result
    ELSE /\ pc' = [pc EXCEPT ![o] = "failed"]
         /\ result' = [result EXCEPT ![o] = [kind |-> "error", error |-> error]]
         /\ sentToken' = [sentToken EXCEPT ![o] = Undefined]
         /\ UNCHANGED delays

\* the rejection leaves makeRequest: the callers up the recursion returned
\* the promise of the retry without awaiting it, so none of them catches it
Fail(o, error) ==
    /\ pc' = [pc EXCEPT ![o] = "failed"]
    /\ result' = [result EXCEPT ![o] = [kind |-> "error", error |-> error]]
    /\ sentToken' = [sentToken EXCEPT ![o] = Undefined]
    /\ UNCHANGED delays

Succeed(o, kind) ==
    /\ pc' = [pc EXCEPT ![o] = "done"]
    /\ result' = [result EXCEPT ![o] = [kind |-> kind, error |-> NoError]]
    /\ sentToken' = [sentToken EXCEPT ![o] = Undefined]
    /\ UNCHANGED delays

\* mutant: one retry too many
RetriesRemainOffByOne(rc) == rc <= maxRetries

RetriesRemain(rc) == rc < maxRetries

\* the catch block of makeRequest
Catch(o, rc, error) ==
    IF retry /\ RetriesRemain(rc) /\ shouldRetry(error, NoStatus)
    THEN Backoff(o, rc)
    ELSE Fail(o, error)

\* fetch(url, {headers: {Authorization}}) with the token read from creds
Send(o, creds) ==
    /\ pc' = [pc EXCEPT ![o] = "http"]
    /\ sentToken' = [sentToken EXCEPT ![o] = BearerToken(creds)]
    /\ UNCHANGED <<delays, result>>

MissingClientId(rc) ==
    ErrorOf("login", "Error", NoStatus, "Missing client ID or client secret",
            FALSE, rc)

\* mutant: the flag is cleared at the end of the try block, not in finally
refreshFlagAfterTry(exit) == exit = "throw"

\* finally { this.tokenRefreshInProgress = false }: the flag after
\* authenticateWithClientCredentials returned or threw
refreshFlagAfter(exit) == FALSE

\* what follows one evaluation of ensureValidToken with the given outcome;
\* stage 1 is the call in makeRequest, stage 2 the one in
\* getAuthorizationHeader, after which the request is sent
AfterEnsure(o, rc, stage, outcome, creds, inProgress) ==
    CASE outcome = "proceed" ->
            /\ Send(o, creds)
            /\ tokenRefreshInProgress' = inProgress
            /\ UNCHANGED loginCalls
      [] outcome = "wait" ->
            /\ pc' = [pc EXCEPT ![o] = IF stage = 1 THEN "wait1" ELSE "wait2"]
            /\ tokenRefreshInProgress' = inProgress
            /\ UNCHANGED <<sentToken, delays, result, loginCalls>>
      [] outcome = "login" ->
            /\ loginCalls < MaxLogins
            /\ tokenRefreshInProgress' = TRUE
            /\ loginCalls' = loginCalls + 1
            /\ pc' = [pc EXCEPT ![o] = IF stage = 1 THEN "login1" ELSE "login2"]
            /\ UNCHANGED <<sentToken, delays, result>>
      [] outcome = "throw" ->
            /\ Catch(o, rc, MissingClientId(rc))
            /\ tokenRefreshInProgress' = refreshFlagAfter("throw")
            /\ UNCHANGED loginCalls

\* await getAuthorizationHeader(), then fetch
Stage2(o, rc, creds, inProgress) ==
    AfterEnsure(o, rc, 2, getAuthorizationHeader(creds, inProgress), creds,
                inProgress)

\* makeRequest(options, rc) up to its first suspension: await
\* ensureValidToken(); when that returns at once the continuation runs in
\* the same turn of the event loop, on the same credentials
Stage1(o, rc) ==
    LET outcome == ensureValidToken(credentials, tokenRefreshInProgress)
    IN  IF outcome = "proceed"
        THEN Stage2(o, rc, credentials, tokenRefreshInProgress)
        ELSE AfterEnsure(o, rc, 1, outcome, credentials, tokenRefreshInProgress)

\* a facade operation calls makeRequest(options)
Start(o) ==
    /\ client = "ready"
    /\ pc[o] = "idle"
    /\ Stage1(o, retryCount[o])
    /\ UNCHANGED <<clientVars, credentials, now, retryCount, lastStatus,
                   prior503>>
    /\ UNCHANGED outerVars

\* the backoff timer fires: makeRequest(options, retryCount + 1)
BackoffDone(o) ==
    /\ pc[o] = "backoff"
    /\ retryCount' = [retryCount EXCEPT ![o] = @ + 1]
    /\ prior503' = [prior503 EXCEPT ![o] = @ /\ lastStatus[o] = 503]
    /\ lastStatus' = [lastStatus EXCEPT ![o] = NoStatus]
    /\ Stage1(o, retryCount[o] + 1)
    /\ UNCHANGED <<clientVars, credentials, now>>
    /\ UNCHANGED outerVars

\* the 500 ms timer of a caller that found a refresh in progress fires:
\* authenticateWithClientCredentials returns without a look at the token
WaitDone(o) ==
    /\ pc[o] \in {"wait1", "wait2"}
    /\ IF pc[o] = "wait1"
       THEN Stage2(o, retryCount[o], credentials, tokenRefreshInProgress)
       ELSE /\ Send(o, credentials)
            /\ UNCHANGED <<tokenRefreshInProgress, loginCalls>>
    /\ UNCHANGED <<clientVars, credentials, now, retryCount, lastStatus,
                   prior503>>
    /\ UNCHANGED outerVars

\* mutant: a login turns the client into a static-token client
StoreTokenAsStatic(creds, serial, expiresIn) ==
    [creds EXCEPT
        !.type = "api-token",
        !.accessToken = Some(<<"access", serial>>),
        !.tokenExpiresAt =
            Some(DateNow + (expiresIn - SafetyMarginSeconds) * 1000)]

\* mutant: the token is kept until the service's own expiry
StoreTokenNoMargin(creds, serial, expiresIn) ==
    [creds EXCEPT
        !.accessToken = Some(<<"access", serial>>),
        !.tokenExpiresAt = Some(DateNow + expiresIn * 1000)]

\* the credentials after a login answered at DateNow with expiresIn; serial
\* numbers the access tokens the service hands out
StoreToken(creds, serial, expiresIn) ==
    [creds EXCEPT
        !.accessToken = Some(<<"access", serial>>),
        !.tokenExpiresAt =
            Some(DateNow + (expiresIn - SafetyMarginSeconds) * 1000)]

\* the login call answers OK with (accessToken, expiresIn)
LoginOk(o, expiresIn) ==
    /\ pc[o] \in {"login1", "login2"}
    /\ credentials' = StoreToken(credentials, loginCalls, expiresIn)
    /\ IF pc[o] = "login1"
       THEN Stage2(o, retryCount[o], credentials', refreshFlagAfter("return"))
       ELSE /\ Send(o, credentials')
            /\ tokenRefreshInProgress' = refreshFlagAfter("return")
            /\ UNCHANGED loginCalls
    /\ UNCHANGED <<clientVars, now, retryCount, lastStatus, prior503>>
    /\ UNCHANGED outerVars

\* mutant: a failed login forgets the stored token
credentialsAfterThrowCleared(creds) ==
    [creds EXCEPT !.accessToken = Undefined, !.tokenExpiresAt = Undefined]

\* the credentials when authenticateWithClientCredentials throws: the throw
\* comes before the two assignments, and catch and finally assign neither
credentialsAfterThrow(creds) == creds

\* the login call fails: a non-OK answer (origin "login") or no answer at all
\* (origin "fetch"); inv: the error message contains 'Invalid credentials'
LoginFail(o, origin, inv) ==
    /\ pc[o] \in {"login1", "login2"}
    /\ tokenRefreshInProgress' = refreshFlagAfter("throw")
    /\ credentials' = credentialsAfterThrow(credentials)
    /\ Catch(o, retryCount[o],
             ErrorOf(origin, "Error", NoStatus, "Failed to authenticate", inv,
                     retryCount[o]))
    /\ UNCHANGED <<clientVars, now, loginCalls, retryCount,
                   lastStatus, prior503>>
    /\ UNCHANGED outerVars

\* mutant: the 401 branch also forgets the access token
ForceExpireDropToken(creds) ==
    [creds EXCEPT !.accessToken = Undefined, !.tokenExpiresAt = Some(0)]

\* this.credentials.tokenExpiresAt = 0
ForceExpire(creds) == [creds EXCEPT !.tokenExpiresAt = Some(0)]

\* the request of o is answered with a status and, if not OK, an error body
Respond(o, status, body) ==
    /\ pc[o] = "http"
    /\ lastStatus' = [lastStatus EXCEPT ![o] = status]
    /\ IF /\ status = 401
          /\ credentials.type = "client-credentials"
          /\ retry
          /\ RetriesRemain(retryCount[o])
       THEN /\ credentials' = ForceExpire(credentials)
            /\ Backoff(o, retryCount[o])
       ELSE /\ UNCHANGED credentials
            /\ IF ~IsOk(status)
               THEN LET error == parseErrorResponse(status, body, retryCount[o])
                    IN  IF /\ retry
                           /\ RetriesRemain(retryCount[o])
                           /\ shouldRetry(error, status)
                        THEN Backoff(o, retryCount[o])
                        ELSE Catch(o, retryCount[o], error)
               ELSE Succeed(o, IF status = 204 THEN "undefined" ELSE "value")
    /\ UNCHANGED <<clientVars, tokenRefreshInProgress, now, loginCalls,
                   retryCount, prior503>>
    /\ UNCHANGED outerVars

\* the request of o gets no response (fetch rejects)
NetworkFailure(o, inv) ==
    /\ pc[o] = "http"
    /\ lastStatus' = [lastStatus EXCEPT ![o] = NoStatus]
    /\ Catch(o, retryCount[o],
             ErrorOf("fetch", "Error", NoStatus, "fetch failed", inv,
                     retryCount[o]))
    /\ UNCHANGED <<clientVars, credentials, tokenRefreshInProgress, now,
                   loginCalls, retryCount, prior503>>
    /\ UNCHANGED outerVars

\* time passes
Tick ==
    /\ now < MaxNow
    /\ now' = now + 1
    /\ UNCHANGED <<clientVars, credentials, tokenRefreshInProgress, loginCalls,
                   pc, retryCount, sentToken, lastStatus, prior503, delays,
                   result>>
    /\ UNCHANGED outerVars

\* ------------------------------------------------------- facade operations
\* The public operations of InfisicalApiClient.  Each awaits makeRequest; the
\* way a makeRequest call ends (a value, undefined for a 204, or an error) is
\* what the request executor above produces.  One action is the code of the
\* operation between two awaits.
Keys == {"K", "L"}

\* a secret as the remote service returns it
RemoteSecrets == [key : Keys, readonly : BOOLEAN]

FacadeOps ==
    {"getSecrets", "getSecretById", "createSecret", "updateSecret",
     "deleteSecret", "getEnvironments"}

\* errors makeRequest rejects with
RequestErrors ==
    {ErrorOf("api", "NotFoundError", 404, "text", FALSE, 0),
     ErrorOf("api", "Error", 503, "text", FALSE, maxRetries),
     ErrorOf("fetch", "Error", NoStatus, "fetch failed", FALSE, maxRetries),
     ErrorOf("login", "Error", NoStatus, "Failed to authenticate", TRUE, 0)}

\* reading a property of undefined
TypeError ==
    ErrorOf("facade", "TypeError", NoStatus,
            "Cannot read properties of undefined", FALSE, 0)

NoSecretsResponse == [defined |-> FALSE, secrets |-> << >>, imports |-> Undefined]

NoValue == [what |-> "none", secrets |-> << >>]

NoFacadeResult == [kind |-> "none", value |-> NoValue, error |-> NoError]

\* imports.reduce((acc, imp) => acc.concat(imp.secrets), acc)
RECURSIVE reduce(_, _)
reduce(imports, acc) ==
    IF imports = << >> THEN acc
    ELSE reduce(Tail(imports), acc \o Head(imports))

\* mutant: the imported secrets keep the flag the remote service gave them
importedSecretsKeepFlag(resp) ==
    IF ~resp.defined \/ resp.imports = Undefined THEN << >>
    ELSE reduce(resp.imports[1], << >>)

\* secretsResponse?.imports?.reduce(...).map(s => ({...s, readonly: true})) || []
importedSecrets(resp) ==
    IF ~resp.defined \/ resp.imports = Undefined THEN << >>
    ELSE LET flat == reduce(resp.imports[1], << >>)
         IN  [i \in 1..Len(flat) |-> [flat[i] EXCEPT !.readonly = TRUE]]

\* secretsResponse?.secrets || []
secrets(resp) == IF resp.defined THEN resp.secrets ELSE << >>

\* the value getSecrets returns: {secrets: [...secrets, ...importedSecrets], folders}
getSecrets(resp) ==
    [what |-> "secrets", secrets |-> secrets(resp) \o importedSecrets(resp)]

\* mutant: deleteSecret logs the error of its request and resolves
FacadeThrowSwallowed(op, error) ==
    IF op = "deleteSecret"
    THEN [kind |-> "value", value |-> [NoValue EXCEPT !.what = "undefined"],
          error |-> NoError]
    ELSE [kind |-> "error", value |-> NoValue, error |-> error]

\* catch (error) { logger.error(...); throw error }; getSecretById has no
\* try block and the rejection of its await propagates
FacadeThrow(op, error) ==
    [kind |-> "error", value |-> NoValue, error |-> error]

FacadeReturn(value) == [kind |-> "value", value |-> value, error |-> NoError]

\* what the operation does with the value of its last makeRequest call;
\* defined is FALSE when makeRequest resolved with undefined
FacadeContinue(op, defined, resp) ==
    CASE op = "deleteSecret" ->
            FacadeReturn([NoValue EXCEPT !.what = "undefined"])
      [] op # "deleteSecret" /\ ~defined -> FacadeThrow(op, TypeError)
      [] op = "getSecrets" /\ defined -> FacadeReturn(getSecrets(resp))
      [] op \in {"getSecretById", "createSecret", "updateSecret"} /\ defined ->
            FacadeReturn([NoValue EXCEPT !.what = "secret"])
      [] op = "getEnvironments" /\ defined ->
            FacadeReturn([NoValue EXCEPT !.what = "workspace"])

\* everything but the facade
aroundFacade == <<apiVars, classifierVars, routerVars, uiVars, updateVars, viewVars, routingVars>>

RemoteTotal == Len(remoteSecrets) + Len(reduce(remoteImports, << >>))

\* the remote service gets a secret at the path
RemoteAddSecret(s) ==
    /\ facadeOp = "none"
    /\ RemoteTotal < MaxSecrets
    /\ remoteSecrets' = Append(remoteSecrets, s)
    /\ UNCHANGED <<remoteImports, facadeOp, facadeArgs, requests,
                   facadePending, secretsResponse, requestOutcome,
                   facadeResult, aroundFacade>>

\* the remote service gets an import at the path
RemoteAddImport ==
    /\ facadeOp = "none"
    /\ Len(remoteImports) < MaxImports
    /\ remoteImports' = Append(remoteImports, << >>)
    /\ UNCHANGED <<remoteSecrets, facadeOp, facadeArgs, requests,
                   facadePending, secretsResponse, requestOutcome,
                   facadeResult, aroundFacade>>

\* the project last imported gets a secret
RemoteAddImported(s) ==
    /\ facadeOp = "none"
    /\ remoteImports # << >>
    /\ RemoteTotal < MaxSecrets
    /\ remoteImports' =
           [remoteImports EXCEPT ![Len(remoteImports)] = Append(@, s)]
    /\ UNCHANGED <<remoteSecrets, facadeOp, facadeArgs, requests,
                   facadePending, secretsResponse, requestOutcome,
                   facadeResult, aroundFacade>>

\* the (workspaceId, path, environment) an operation is invoked with
FacadeArgs ==
    {[workspaceId |-> "ws", path |-> "/", environment |-> "dev"],
     [workspaceId |-> "ws", path |-> "/app", environment |-> "prod"]}

NoArgs == [workspaceId |-> "", path |-> "", environment |-> ""]

\* mutant: the folders are always those of the root path
RequestOptionsRootFolders(op, k, args) ==
    [method |-> CASE op = "createSecret" -> "POST"
                  [] op = "updateSecret" -> "PATCH"
                  [] op = "deleteSecret" -> "DELETE"
                  [] OTHER -> "GET",
     path |-> CASE op = "getSecrets" /\ k = 1 -> "/v3/secrets/raw"
                [] op = "getSecrets" /\ k = 2 -> "/v1/folders"
                [] op = "getEnvironments" -> "/v1/workspace/:workspaceId"
                [] OTHER -> "/v3/secrets/raw/:secretId",
     workspaceId |-> args.workspaceId,
     environment |-> IF op = "getEnvironments" THEN "" ELSE args.environment,
     secretPath |-> IF op = "getEnvironments" THEN ""
                    ELSE IF op = "getSecrets" /\ k = 2 THEN "/"
                    ELSE args.path]

\* the options of the k-th makeRequest call of the operation: method, path
\* and the workspace, environment and secret path named in its query or body
RequestOptions(op, k, args) ==
    [method |-> CASE op = "createSecret" -> "POST"
                  [] op = "updateSecret" -> "PATCH"
                  [] op = "deleteSecret" -> "DELETE"
                  [] OTHER -> "GET",
     path |-> CASE op = "getSecrets" /\ k = 1 -> "/v3/secrets/raw"
                [] op = "getSecrets" /\ k = 2 -> "/v1/folders"
                [] op = "getEnvironments" -> "/v1/workspace/:workspaceId"
                [] OTHER -> "/v3/secrets/raw/:secretId",
     workspaceId |-> args.workspaceId,
     environment |-> IF op = "getEnvironments" THEN "" ELSE args.environment,
     secretPath |-> IF op = "getEnvironments" THEN "" ELSE args.path]

\* a caller invokes an operation, which runs up to its first await makeRequest
Invoke(op, args) ==
    /\ client = "ready"
    /\ facadeOp = "none"
    /\ facadeOp' = op
    /\ facadeArgs' = args
    /\ requests' = <<RequestOptions(op, 1, args)>>
    /\ facadePending' = 1
    /\ UNCHANGED <<remoteSecrets, remoteImports, secretsResponse,
                   requestOutcome, facadeResult, aroundFacade>>

\* the awaited makeRequest resolves: with undefined (defined = FALSE) or with
\* the parsed body, which carries imports or not
RequestResolves(defined, withImports) ==
    /\ facadePending > 0
    /\ requestOutcome' = [kind |-> IF defined THEN "value" ELSE "undefined",
                          error |-> NoError]
    /\ IF facadeOp = "getSecrets" /\ facadePending = 1
       THEN /\ secretsResponse' =
                   [defined |-> defined,
                    secrets |-> IF defined THEN remoteSecrets ELSE << >>,
                    imports |-> IF defined /\ withImports
                                THEN Some(remoteImports) ELSE Undefined]
            /\ requests' =
                   Append(requests, RequestOptions(facadeOp, 2, facadeArgs))
            /\ facadePending' = 2
            /\ UNCHANGED facadeResult
       ELSE /\ facadePending' = 0
            /\ facadeResult' = FacadeContinue(facadeOp, defined, secretsResponse)
            /\ UNCHANGED <<secretsResponse, requests>>
    /\ UNCHANGED <<remoteSecrets, remoteImports, facadeOp, facadeArgs,
                   aroundFacade>>

\* the awaited makeRequest rejects
RequestRejects(error) ==
    /\ facadePending > 0
    /\ requestOutcome' = [kind |-> "error", error |-> error]
    /\ facadePending' = 0
    /\ facadeResult' = FacadeThrow(facadeOp, error)
    /\ UNCHANGED <<remoteSecrets, remoteImports, facadeOp, facadeArgs,
                   requests, secretsResponse, aroundFacade>>

FacadeInit ==
    /\ remoteSecrets = << >>
    /\ remoteImports = << >>
    /\ facadeOp = "none"
    /\ facadeArgs = NoArgs
    /\ requests = << >>
    /\ facadePending = 0
    /\ secretsResponse = NoSecretsResponse
    /\ requestOutcome = NoResult
    /\ facadeResult = NoFacadeResult

\* --------------------------------------------------------- error classifier
\* parseErrorResponse applied to one non-OK response of the remote service
ErrorStatuses == {400, 401, 403, 404, 409, 500, 503}

NoResponse == [status |-> NoStatus, body |-> NoBody]

aroundClassifier == <<apiVars, facadeVars, routerVars, uiVars, updateVars, viewVars, routingVars>>

\* the remote service answers a request with a non-OK response
Receive(status, body) ==
    /\ response = NoResponse
    /\ response' = [status |-> status, body |-> body]
    /\ UNCHANGED <<classified, aroundClassifier>>

\* const error = await this.parseErrorResponse(response)
ParseError ==
    /\ response # NoResponse
    /\ classified = NoError
    /\ classified' = parseErrorResponse(response.status, response.body, 0)
    /\ UNCHANGED <<response, aroundClassifier>>

ClassifierInit ==
    /\ response = NoResponse
    /\ classified = NoError

\* ------------------------------------------------------------------- router
\* createRouter: one handler per route.  A handler that throws ends in
\* errorHandler; otherwise it awaits one operation of infisicalApi.
Routes ==
    {"GET /secrets", "GET /secrets/:secretId", "GET /environments",
     "POST /secrets", "PATCH /secrets/:secretId", "DELETE /secrets/:secretId"}

\* the fields of the query or the body a handler looks at; a request has the
\* set of those that are present with a non-empty value
Fields == {"workspaceId", "secretKey", "secretValue", "environment"}

\* a request comes from the frontend plugin or from any other HTTP client
Origins == {"ui", "http"}

NoRequest ==
    [route |-> "none", origin |-> "none", secretId |-> "none", fields |-> {}]

NoHttpResponse == [status |-> NoStatus, message |-> "none"]

\* mutant: the handlers check workspaceId only
validateWorkspaceOnly(route, fields) ==
    IF "workspaceId" \notin fields THEN "workspaceId is required" ELSE "ok"

\* the checks at the head of each handler: "ok" or the message of the
\* InputError thrown
validate(route, fields) ==
    CASE route \in {"GET /secrets", "GET /secrets/:secretId",
                    "GET /environments"} ->
            IF "workspaceId" \notin fields THEN "workspaceId is required"
            ELSE "ok"
      [] route \in {"POST /secrets", "PATCH /secrets/:secretId"} ->
            IF "secretKey" \notin fields \/ "secretValue" \notin fields
            THEN "Key and value are required fields"
            ELSE IF "workspaceId" \notin fields THEN "workspaceId is required"
            ELSE "ok"
      [] route = "DELETE /secrets/:secretId" ->
            IF "workspaceId" \notin fields \/ "environment" \notin fields
            THEN "workspaceId and environment are required fields"
            ELSE "ok"

\* the operation of infisicalApi a handler awaits
ApiOp(route) ==
    CASE route = "GET /secrets" -> "getSecrets"
      [] route = "GET /secrets/:secretId" -> "getSecretById"
      [] route = "GET /environments" -> "getEnvironments"
      [] route = "POST /secrets" -> "createSecret"
      [] route = "PATCH /secrets/:secretId" -> "updateSecret"
      [] route = "DELETE /secrets/:secretId" -> "deleteSecret"

\* response.json(...), response.status(201).json(...), response.status(204).send()
SuccessStatus(route) ==
    CASE route = "POST /secrets" -> 201
      [] route = "DELETE /secrets/:secretId" -> 204
      [] OTHER -> 200

\* the status errorHandler answers an error with
errorHandler(name) ==
    CASE name = "InputError" -> 400
      [] name = "NotFoundError" -> 404
      [] name = "ConflictError" -> 409
      [] OTHER -> 500

\* the Actions column: edit and delete are rendered for a row that is
\* neither a folder nor readonly
ActionsRendered(row) == ~row.readonly

aroundRouter == <<apiVars, facadeVars, classifierVars, uiVars, updateVars, viewVars, routingVars>>

\* the table of the frontend shows the secrets of a listing
List(rows) ==
    /\ listed = {}
    /\ httpRequest = NoRequest
    /\ rows # {}
    /\ listed' = rows
    /\ UNCHANGED <<httpRequest, apiCalls, httpResponse, aroundRouter>>

\* a request arrives and its handler runs up to its await or its throw; the
\* frontend sends complete requests, and an update or a delete only for a
\* row whose actions are rendered
Handle(origin, route, secretId, fields) ==
    /\ httpRequest = NoRequest
    /\ origin = "ui" =>
          /\ fields = Fields
          /\ route \in {"PATCH /secrets/:secretId", "DELETE /secrets/:secretId"}
                => \E row \in listed : ActionsRendered(row) /\ row.key = secretId
    /\ httpRequest' = [route |-> route, origin |-> origin,
                       secretId |-> secretId, fields |-> fields]
    /\ LET v == validate(route, fields)
       IN  IF v = "ok"
           THEN /\ apiCalls' = Append(apiCalls, [op |-> ApiOp(route),
                                                 secretId |-> secretId])
                /\ UNCHANGED httpResponse
           ELSE /\ httpResponse' = [status |-> errorHandler("InputError"),
                                    message |-> v]
                /\ UNCHANGED apiCalls
    /\ UNCHANGED <<listed, aroundRouter>>

\* the awaited operation resolves and the handler answers
ApiResolves ==
    /\ apiCalls # << >>
    /\ httpResponse = NoHttpResponse
    /\ httpResponse' = [status |-> SuccessStatus(httpRequest.route),
                        message |-> "none"]
    /\ UNCHANGED <<listed, httpRequest, apiCalls, aroundRouter>>

\* the awaited operation rejects and errorHandler answers
ApiRejects(error) ==
    /\ apiCalls # << >>
    /\ httpResponse = NoHttpResponse
    /\ httpResponse' = [status |-> errorHandler(error.name),
                        message |-> error.text]
    /\ UNCHANGED <<listed, httpRequest, apiCalls, aroundRouter>>

RouterInit ==
    /\ listed = {}
    /\ httpRequest = NoRequest
    /\ apiCalls = << >>
    /\ httpResponse = NoHttpResponse

\* ------------------------------------------- InfisicalClient of the frontend
\* Each operation validates its workspace id, awaits the base URL of the
\* backend plugin, awaits fetchApi.fetch and looks at response.ok.
UiOps ==
    {"getWorkspaces", "getEnvironments", "getSecrets", "getSecretByKey",
     "createSecret", "updateSecret", "deleteSecret"}

\* the operations that take a workspace id
WorkspaceScoped == UiOps \ {"getWorkspaces"}

WorkspaceIds == {"", "ws"}

\* the statuses the backend plugin answers with
UiStatuses == {200, 400, 404, 500}

\* what the body of a non-OK answer parses to: an object with a message,
\* with an error object, with an error string, with details or with none
\* of them, a string, a number, or no JSON at all
ErrorBodies ==
    {"message", "errorObject", "errorString", "details", "other", "string",
     "number", "unparsable"}

NoCall == [op |-> "none", workspaceId |-> ""]

NoAnswer == [status |-> NoStatus, body |-> "none"]

NoUiResult == [kind |-> "none", message |-> "none"]

\* mutant: no check of the workspace id
validateWorkspaceIdNever(workspaceId) == "ok"

\* if (!workspaceId) throw new Error('No workspace ID provided. ...')
validateWorkspaceId(workspaceId) ==
    IF workspaceId = "" THEN "No workspace ID provided" ELSE "ok"

\* the message of the ResponseError handleApiError throws: the one it finds
\* in the body, the status text, or the one ResponseError made
handleApiError(answer) ==
    CASE answer.body = "message" -> "message"
      [] answer.body = "errorObject" -> "error.message"
      [] answer.body = "errorString" -> "error"
      [] answer.body = "details" -> "details"
      [] answer.body = "other" -> "simplified"
      [] answer.body = "string" -> "string"
      [] answer.body = "number" -> "ResponseError"
      [] answer.body = "unparsable" -> "statusText"

aroundUi == <<apiVars, facadeVars, classifierVars, routerVars, updateVars, viewVars, routingVars>>

\* an operation is called and runs up to await this.getBaseUrl()
UiInvoke(op, workspaceId) ==
    /\ uiStage = "idle"
    /\ op = "getWorkspaces" => workspaceId = ""
    /\ uiCall' = [op |-> op, workspaceId |-> workspaceId]
    /\ LET v == IF op \in WorkspaceScoped
                THEN validateWorkspaceId(workspaceId) ELSE "ok"
       IN  IF v = "ok"
           THEN /\ uiStage' = "baseUrl"
                /\ UNCHANGED uiResult
           ELSE /\ uiStage' = "settled"
                /\ uiResult' = [kind |-> "error", message |-> v]
    /\ UNCHANGED <<uiFetches, backendAnswer, unhandledRejection, aroundUi>>

\* discoveryApi.getBaseUrl resolves and the operation calls fetchApi.fetch
BaseUrlResolves ==
    /\ uiStage = "baseUrl"
    /\ uiStage' = "fetch"
    /\ uiFetches' = uiFetches + 1
    /\ UNCHANGED <<uiCall, backendAnswer, uiResult, unhandledRejection,
                   aroundUi>>

\* discoveryApi.getBaseUrl rejects
BaseUrlRejects ==
    /\ uiStage = "baseUrl"
    /\ uiStage' = "settled"
    /\ uiResult' = [kind |-> "error", message |-> "discovery failed"]
    /\ UNCHANGED <<uiCall, uiFetches, backendAnswer, unhandledRejection,
                   aroundUi>>

\* fetchApi.fetch rejects: no response
FetchFails ==
    /\ uiStage = "fetch"
    /\ uiStage' = "settled"
    /\ uiResult' = [kind |-> "error", message |-> "fetch failed"]
    /\ UNCHANGED <<uiCall, uiFetches, backendAnswer, unhandledRejection,
                   aroundUi>>

\* the backend plugin answers.  Every operation but deleteSecret returns
\* handleApiError(response) when the response is not OK; deleteSecret calls
\* it without return or await, and goes on to the end of its body
BackendAnswers(status, body) ==
    /\ uiStage = "fetch"
    /\ IsOk(status) <=> body = "none"
    /\ backendAnswer' = [status |-> status, body |-> body]
    /\ uiStage' = "settled"
    /\ IF IsOk(status)
       THEN /\ uiResult' = [kind |-> "value", message |-> "none"]
            /\ UNCHANGED unhandledRejection
       ELSE IF uiCall.op = "deleteSecret"
       THEN /\ uiResult' = [kind |-> "value", message |-> "none"]
            /\ unhandledRejection' = handleApiError(backendAnswer')
       ELSE /\ uiResult' = [kind |-> "error",
                            message |-> handleApiError(backendAnswer')]
            /\ UNCHANGED unhandledRejection
    /\ UNCHANGED <<uiCall, uiFetches, aroundUi>>

UiInit ==
    /\ uiCall = NoCall
    /\ uiStage = "idle"
    /\ uiFetches = 0
    /\ backendAnswer = NoAnswer
    /\ uiResult = NoUiResult
    /\ unhandledRejection = "none"

\* ----------------------------------------------- the body of updateSecret
\* An object is a record of optional values: a property is absent or
\* undefined (Undefined), or it has a value (Some(v)).
SecretNames == {"A", "B", "C"}

\* the request data of updateSecret: key and value, optionally an
\* environment, and whatever newSecretName the caller put into it
SecretData ==
    [secretKey : SecretNames,
     secretValue : {"v", "w"},
     environment : {Undefined, Some("dev")},
     newSecretName : {Undefined} \cup {Some(k) : k \in SecretNames}]

NoUpdate == [called |-> FALSE, secretId |-> "none"]

NoPatchRequest == [method |-> "none", path |-> << >>, body |-> << >>]

\* JSON.stringify(body): a property whose value is undefined is left out
JSONstringify(obj) ==
    [f \in {g \in DOMAIN obj : obj[g] # Undefined} |-> obj[f][1]]

\* mutant: the request data is spread last, so its own newSecretName stays
updateBodySpreadLast(secretData, secretId) ==
    IF secretData.newSecretName # Undefined THEN
        [secretKey |-> Some(secretData.secretKey),
         secretValue |-> Some(secretData.secretValue),
         environment |-> secretData.environment,
         newSecretName |-> secretData.newSecretName]
    ELSE
        [secretKey |-> Some(secretData.secretKey),
         secretValue |-> Some(secretData.secretValue),
         environment |-> secretData.environment,
         newSecretName |-> IF secretData.secretKey # secretId
                           THEN Some(secretData.secretKey) ELSE Undefined]

\* {...secretData, newSecretName: secretData.secretKey !== secretId ?
\*  secretData.secretKey : undefined}
updateBody(secretData, secretId) ==
    [secretKey |-> Some(secretData.secretKey),
     secretValue |-> Some(secretData.secretValue),
     environment |-> secretData.environment,
     newSecretName |-> IF secretData.secretKey # secretId
                       THEN Some(secretData.secretKey) ELSE Undefined]

aroundUpdate == <<apiVars, facadeVars, classifierVars, routerVars, uiVars, viewVars, routingVars>>

\* updateSecret(secretData, secretId) up to the fetch of its request
UpdateSecret(secretData, secretId) ==
    /\ ~updateCall.called
    /\ updateCall' = [called |-> TRUE, secretId |-> secretId,
                      secretData |-> secretData]
    /\ patchRequest' =
           [method |-> "PATCH",
            path |-> <<"/v3/secrets/raw", secretId>>,
            body |-> JSONstringify(updateBody(secretData, secretId))]
    /\ UNCHANGED aroundUpdate

UpdateInit ==
    /\ updateCall = NoUpdate
    /\ patchRequest = NoPatchRequest

\* ------------------------------------------------------------ secrets view
\* A string is the sequence of its characters, "/app" is <<"/", "a", "p", "p">>.
Slash == <<"/">>

\* the deepest current path the model navigates to, in segments
MaxDepth == 3

\* the secretPath prop of the entity annotation: absent, empty, with and
\* without the leading "+", with and without leading and trailing slashes
SecretPathProps ==
    { Undefined,
      Some(<< >>),
      Some(<<"+">>),
      Some(<<"+", "/", "a">>),
      Some(<<"+", "a", "/">>),
      Some(<<"+", "/", "a", "/", "/", "b">>),
      Some(<<"/">>),
      Some(<<"a">>),
      Some(<<"/", "a", "/">>),
      Some(<<"/", "a", "/", "/">>),
      Some(<<"/", "a", "/", "b">>) }

\* the names of the folders a listing shows
FolderNames == {<<"a">>, <<"b">>}

EnvironmentSlugs == {"dev", "prod"}

\* String.prototype.startsWith and endsWith
startsWith(s, p) == Len(p) <= Len(s) /\ SubSeq(s, 1, Len(p)) = p

endsWith(s, p) ==
    Len(p) <= Len(s) /\ SubSeq(s, Len(s) - Len(p) + 1, Len(s)) = p

\* Array.prototype.slice(0, end) with end >= 0
sliceTo(parts, end) ==
    SubSeq(parts, 1, IF end < Len(parts) THEN end ELSE Len(parts))

\* String.prototype.split('/'): the pieces between the slashes, empty ones
\* included
RECURSIVE split(_)
split(s) ==
    IF \A i \in 1..Len(s) : s[i] # "/"
    THEN <<s>>
    ELSE LET i == CHOOSE k \in 1..Len(s) :
                      s[k] = "/" /\ \A j \in 1..(k - 1) : s[j] # "/"
         IN  <<SubSeq(s, 1, i - 1)>> \o split(SubSeq(s, i + 1, Len(s)))

\* .filter(Boolean) on strings drops the empty ones
filterBoolean(parts) == SelectSeq(parts, LAMBDA p : p # << >>)

\* Array.prototype.join('/')
RECURSIVE join(_)
join(parts) ==
    IF parts = << >> THEN << >>
    ELSE IF Len(parts) = 1 THEN parts[1]
    ELSE parts[1] \o Slash \o join(Tail(parts))

PathParts(path) == filterBoolean(split(path))

\* the path with a leading slash
normalizedPath(path) == IF startsWith(path, Slash) THEN path ELSE Slash \o path

\* the normalized path without one trailing slash
cleanPath(path) ==
    LET normalized == normalizedPath(path)
    IN  IF endsWith(normalized, Slash) /\ normalized # Slash
        THEN SubSeq(normalized, 1, Len(normalized) - 1)
        ELSE normalized

\* the effect on secretPath: <<allowNavigation, basePath and currentPath>>
secretPathEffect(prop) ==
    IF prop = Undefined \/ prop = Some(<< >>)
    THEN <<TRUE, Slash>>
    ELSE IF startsWith(prop[1], <<"+">>)
         THEN <<TRUE, cleanPath(Tail(prop[1]))>>
         ELSE <<FALSE, cleanPath(prop[1])>>

folderPathReplacesCurrent(current, folderName) == Slash \o folderName

\* the path navigateToFolder moves to
folderPath(current, folderName) ==
    IF current = Slash THEN Slash \o folderName
    ELSE current \o Slash \o folderName

\* the path navigateToBreadcrumb(index) computes for index >= 0
breadcrumbPath(current, base, index) ==
    LET pathParts == PathParts(current)
        basePathParts == PathParts(base)
        targetIndex == IF index > Len(basePathParts) - 1
                       THEN index ELSE Len(basePathParts) - 1
    IN  Slash \o join(sliceTo(pathParts, targetIndex + 1))

\* the indices the breadcrumb links pass: -1 for the home link and
\* basePathParts.length + index for each navigable part
BreadcrumbIndices ==
    LET n == Len(PathParts(basePath))
    IN  {-1} \cup { n + i : i \in 0..(Len(PathParts(currentPath)) - n - 1) }

aroundView == <<apiVars, facadeVars, classifierVars, routerVars, uiVars,
                updateVars, routingVars>>

\* the component renders with its props; the effect on secretPath runs on
\* the first render and when the prop has changed, before any click is
\* handled
Render(prop, locked) ==
    /\ ~mounted \/ prop # secretPath \/ locked # isEnvironmentLocked
    /\ mounted' = TRUE
    /\ secretPath' = prop
    /\ isEnvironmentLocked' = locked
    /\ IF ~mounted \/ prop # secretPath
       THEN /\ allowNavigation' = secretPathEffect(prop)[1]
            /\ basePath' = secretPathEffect(prop)[2]
            /\ currentPath' = secretPathEffect(prop)[2]
       ELSE UNCHANGED <<allowNavigation, basePath, currentPath>>
    /\ UNCHANGED <<selectedEnvironment, aroundView>>

\* a click on a folder row; the row has no handler when navigation is
\* disabled
navigateToFolder(folderName) ==
    /\ mounted
    /\ allowNavigation
    /\ Len(PathParts(currentPath)) < MaxDepth
    /\ currentPath' = folderPath(currentPath, folderName)
    /\ UNCHANGED <<mounted, secretPath, isEnvironmentLocked,
                   selectedEnvironment, basePath, allowNavigation, aroundView>>

\* a click on a breadcrumb link; the links have no handler when navigation
\* is disabled
navigateToBreadcrumb(index) ==
    /\ mounted
    /\ allowNavigation
    /\ index \in BreadcrumbIndices
    /\ IF index = -1
       THEN currentPath' = basePath
       ELSE LET newPath == breadcrumbPath(currentPath, basePath, index)
            IN  IF startsWith(newPath, basePath) \/ basePath = Slash
                THEN currentPath' = newPath
                ELSE UNCHANGED currentPath
    /\ UNCHANGED <<mounted, secretPath, isEnvironmentLocked,
                   selectedEnvironment, basePath, allowNavigation, aroundView>>

\* the environment selector, rendered only when the environment is not locked
handleEnvironmentChange(value) ==
    /\ mounted
    /\ ~isEnvironmentLocked
    /\ selectedEnvironment' = Some(value)
    /\ currentPath' = basePath
    /\ UNCHANGED <<mounted, secretPath, isEnvironmentLocked, basePath,
                   allowNavigation, aroundView>>

ViewInit ==
    /\ mounted = FALSE
    /\ secretPath = Undefined
    /\ isEnvironmentLocked = FALSE
    /\ selectedEnvironment = Undefined
    /\ basePath = Slash
    /\ currentPath = Slash
    /\ allowNavigation = TRUE

\* ------------------------------------- frontend requests and backend routes
\* A URL path is a string of "/" and of pieces without a slash, as in the
\* secrets view: "/secrets/A" is <<"/", "secrets", "/", "A">>.

\* the secret keys and ids the operations are called with
SecretIds == {<<"A">>, <<"a", "/", "b">>}

\* options?: InfisicalOptions, as far as the requests carry it
ClientOptions ==
    [path : {Undefined, Some(Slash), Some(<<"/", "app">>)},
     environment : {Undefined, Some("dev"), Some("prod")}]

NoFetch == [op |-> "none"]

\* the answer of the router when no route matches
NoRoute == "no route"

\* encodeURIComponent: a slash becomes %2F
encodeURIComponent(s) ==
    [i \in 1..Len(s) |-> IF s[i] = "/" THEN "%2F" ELSE s[i]]

\* the entries of queryParams, in the order they are appended
queryParams(workspaceId, options) ==
    <<<<"workspaceId", workspaceId>>>>
    \o (IF options.path # Undefined /\ options.path # Some(<< >>)
           /\ options.path # Some(Slash)
        THEN <<<<"path", options.path[1]>>>> ELSE << >>)
    \o (IF options.environment # Undefined /\ options.environment # Some("")
        THEN <<<<"environment", options.environment[1]>>>> ELSE << >>)

\* {...secretData, secretPath: options?.path, workspaceId, environment:
\*  options?.environment} of createSecret and updateSecret
secretBody(secretData, workspaceId, options) ==
    [secretKey |-> Some(secretData.secretKey),
     secretValue |-> Some(secretData.secretValue),
     secretPath |-> options.path,
     workspaceId |-> Some(workspaceId),
     environment |-> options.environment]

\* {secretPath: options?.path, workspaceId, environment: options?.environment}
\* of deleteSecret
deleteBody(workspaceId, options) ==
    [secretPath |-> options.path,
     workspaceId |-> Some(workspaceId),
     environment |-> options.environment]

\* the request an operation hands to fetchApi.fetch, relative to the base URL
\* of the backend plugin
clientRequest(op, workspaceId, key, options) ==
    LET secretData == [secretKey |-> key, secretValue |-> "v"]
    IN
    CASE op = "getWorkspaces" ->
            [method |-> "GET", path |-> <<"/", "workspaces">>,
             query |-> << >>, body |-> Undefined]
      [] op = "getEnvironments" ->
            [method |-> "GET", path |-> <<"/", "environments">>,
             query |-> <<<<"workspaceId", workspaceId>>>>, body |-> Undefined]
      [] op = "getSecrets" ->
            [method |-> "GET", path |-> <<"/", "secrets">>,
             query |-> queryParams(workspaceId, options), body |-> Undefined]
      [] op = "getSecretByKey" ->
            [method |-> "GET",
             path |-> <<"/", "secrets", "/">> \o encodeURIComponent(key),
             query |-> queryParams(workspaceId, options), body |-> Undefined]
      [] op = "createSecret" ->
            [method |-> "POST", path |-> <<"/", "secrets">>,
             query |-> << >>,
             body |-> Some(JSONstringify(
                         secretBody(secretData, workspaceId, options)))]
      [] op = "updateSecret" ->
            [method |-> "PATCH",
             path |-> <<"/", "secrets", "/">> \o encodeURIComponent(key),
             query |-> << >>,
             body |-> Some(JSONstringify(
                         secretBody(secretData, workspaceId, options)))]
      [] op = "deleteSecret" ->
            [method |-> "DELETE",
             path |-> <<"/", "secrets", "/">> \o encodeURIComponent(key),
             query |-> << >>,
             body |-> Some(JSONstringify(deleteBody(workspaceId, options)))]

\* the routes of the router in the order of their registration
RegisteredRoutes ==
    << [method |-> "GET", path |-> <<"/", "secrets">>,
        name |-> "GET /secrets"],
       [method |-> "GET", path |-> <<"/", "secrets", "/", ":secretId">>,
        name |-> "GET /secrets/:secretId"],
       [method |-> "GET", path |-> <<"/", "environments">>,
        name |-> "GET /environments"],
       [method |-> "POST", path |-> <<"/", "secrets">>,
        name |-> "POST /secrets"],
       [method |-> "PATCH", path |-> <<"/", "secrets", "/", ":secretId">>,
        name |-> "PATCH /secrets/:secretId"],
       [method |-> "DELETE", path |-> <<"/", "secrets", "/", ":secretId">>,
        name |-> "DELETE /secrets/:secretId"] >>

\* the match of a request path with a route path: piece by piece, a
\* parameter takes one non-empty piece, one trailing slash is allowed
matchPath(pattern, path) ==
    LET pat == Tail(split(pattern))
        all == Tail(split(path))
        pieces == IF Len(all) > 1 /\ all[Len(all)] = << >>
                  THEN SubSeq(all, 1, Len(all) - 1) ELSE all
    IN  /\ Len(pat) = Len(pieces)
        /\ \A i \in 1..Len(pat) :
              IF pat[i] = <<":secretId">> THEN pieces[i] # << >>
              ELSE pieces[i] = pat[i]

\* the first registered route of the method that matches the path
dispatch(request) ==
    LET matching == { i \in 1..Len(RegisteredRoutes) :
                        /\ RegisteredRoutes[i].method = request.method
                        /\ matchPath(RegisteredRoutes[i].path, request.path) }
    IN  IF matching = {} THEN NoRoute
        ELSE RegisteredRoutes[CHOOSE i \in matching :
                                  \A j \in matching : i <= j].name

aroundRouting == <<apiVars, facadeVars, classifierVars, routerVars, uiVars,
                   updateVars, viewVars>>

\* an operation of the client passes the check of its workspace id and
\* calls fetchApi.fetch
ClientFetch(op, workspaceId, key, options) ==
    /\ clientFetch = NoFetch
    /\ op \in WorkspaceScoped => validateWorkspaceId(workspaceId) = "ok"
    /\ clientFetch' = [op |-> op,
                       request |-> clientRequest(op, workspaceId, key, options)]
    /\ UNCHANGED <<dispatched, aroundRouting>>

\* the router of the backend plugin takes the request
RouterDispatch ==
    /\ clientFetch # NoFetch
    /\ dispatched = Undefined
    /\ dispatched' = Some(dispatch(clientFetch.request))
    /\ UNCHANGED <<clientFetch, aroundRouting>>

RoutingInit ==
    /\ clientFetch = NoFetch
    /\ dispatched = Undefined

OuterInit ==
    /\ FacadeInit
    /\ ClassifierInit
    /\ RouterInit
    /\ UiInit
    /\ UpdateInit
    /\ ViewInit
    /\ RoutingInit

\* ---------------------------------------------------------- specification
Init ==
    /\ config \in Configs
    /\ client = "unbuilt"
    /\ constructError = "none"
    /\ credentials = NoCredentials
    /\ tokenRefreshInProgress = FALSE
    /\ now = 1
    /\ loginCalls = 0
    /\ pc = [o \in Ops |-> "idle"]
    /\ retryCount = [o \in Ops |-> 0]
    /\ sentToken = [o \in Ops |-> Undefined]
    /\ lastStatus = [o \in Ops |-> NoStatus]
    /\ prior503 = [o \in Ops |-> TRUE]
    /\ delays = [o \in Ops |-> << >>]
    /\ result = [o \in Ops |-> NoResult]
    /\ OuterInit

Next ==
    \/ Construct
    \/ \E o \in Ops : Start(o)
    \/ \E o \in Ops : WaitDone(o)
    \/ \E o \in Ops, e \in ExpiresInValues : LoginOk(o, e)
    \/ \E o \in Ops, origin \in {"login", "fetch"}, inv \in BOOLEAN :
          LoginFail(o, origin, inv)
    \/ \E o \in Ops, st \in Statuses : \E b \in BodiesOf(st) : Respond(o, st, b)
    \/ \E o \in Ops, inv \in BOOLEAN : NetworkFailure(o, inv)
    \/ \E o \in Ops : BackoffDone(o)
    \/ Tick

Spec == Init /\ [][Next]_vars

\* -------------------------------- operations started on a token-less client
\* A well-behaved service: every login succeeds with a token that outlives
\* the run, and 401 answers only a request that did not carry the stored,
\* unexpired token.  Operations start while the client holds no token.
ColdInit ==
    /\ Init
    /\ config = [infisical |-> TRUE, auth_token |-> "absent",
                 universalAuth |-> "ok"]

ColdStart(o) ==
    /\ credentials.accessToken = Undefined
    /\ Start(o)

LongLivedLogin(o) ==
    \E e \in ExpiresInValues :
        /\ e - SafetyMarginSeconds > MaxNow
        /\ LoginOk(o, e)

HonestRespond(o) ==
    \E st \in Statuses : \E b \in BodiesOf(st) :
        /\ pc[o] = "http"
        /\ st = 401 =>
              (sentToken[o] # credentials.accessToken
                  \/ isTokenExpired(credentials))
        /\ Respond(o, st, b)

ColdNext ==
    \/ Construct
    \/ \E o \in Ops : ColdStart(o)
    \/ \E o \in Ops : WaitDone(o)
    \/ \E o \in Ops : LongLivedLogin(o)
    \/ \E o \in Ops : HonestRespond(o)
    \/ \E o \in Ops : BackoffDone(o)

SpecColdStart == ColdInit /\ [][ColdNext]_vars

\* ------------------------------------------------ requests one client runs
\* The requests of a single caller, who awaits each request before starting
\* the next: no two requests are in flight together, so none waits for
\* another's refresh.  At most NumSolo requests are started, and the service
\* answers in every way.
NumSolo == 1

SoloStart(o) ==
    /\ o <= NumSolo
    /\ \A p \in Ops : pc[p] \in {"idle", "done", "failed"}
    /\ Start(o)

SoloNext ==
    \/ Construct
    \/ \E o \in Ops : SoloStart(o)
    \/ \E o \in Ops, e \in ExpiresInValues : LoginOk(o, e)
    \/ \E o \in Ops, origin \in {"login", "fetch"}, inv \in BOOLEAN :
          LoginFail(o, origin, inv)
    \/ \E o \in Ops, st \in Statuses : \E b \in BodiesOf(st) : Respond(o, st, b)
    \/ \E o \in Ops, inv \in BOOLEAN : NetworkFailure(o, inv)
    \/ \E o \in Ops : BackoffDone(o)
    \/ Tick

SpecSolo == Init /\ [][SoloNext]_vars

\* ------------------------------------------- concurrent refreshes of a token
\* All the requests run concurrently on a client-credentials client, in a
\* time too short for the clock to matter; the service answers a request with
\* 200 or 401 and a login with a failure or with a token that is either
\* expired on arrival (expiresIn = the safety margin) or long-lived.
RefreshStatuses == {200, 401}

RefreshExpiresIn ==
    {e \in ExpiresInValues :
        e = SafetyMarginSeconds \/ e - SafetyMarginSeconds > MaxNow}

RefreshNext ==
    \/ Construct
    \/ \E o \in Ops : Start(o)
    \/ \E o \in Ops : WaitDone(o)
    \/ \E o \in Ops, e \in RefreshExpiresIn : LoginOk(o, e)
    \/ \E o \in Ops : LoginFail(o, "login", FALSE)
    \/ \E o \in Ops, st \in RefreshStatuses : \E b \in BodiesOf(st) :
          Respond(o, st, b)
    \/ \E o \in Ops : BackoffDone(o)

SpecRefresh == ColdInit /\ [][RefreshNext]_vars

\* --------------------------------------- concurrent requests, logins succeed
\* As above with a login service that never fails: an attempt is retried only
\* because its request was answered with 401, so every request sent with
\* retryCount > 0 is the retry of a request of the same operation that was
\* answered with 401.
RejectNext ==
    \/ Construct
    \/ \E o \in Ops : Start(o)
    \/ \E o \in Ops : WaitDone(o)
    \/ \E o \in Ops, e \in RefreshExpiresIn : LoginOk(o, e)
    \/ \E o \in Ops, st \in RefreshStatuses : \E b \in BodiesOf(st) :
          Respond(o, st, b)
    \/ \E o \in Ops : BackoffDone(o)

SpecRejected == ColdInit /\ [][RejectNext]_vars

\* ------------------------------------------ requests one after the other
\* The requests of a caller who awaits each request before starting the
\* next, on a client-credentials client and in a time too short for the
\* clock to matter: a later request finds the token an earlier one left.
\* No request finds a refresh in progress, so authenticateWithClientCredentials
\* is invoked exactly when a login call is issued.
SeqStart(o) ==
    /\ \A p \in Ops : pc[p] \in {"idle", "done", "failed"}
    /\ Start(o)

SeqNext ==
    \/ Construct
    \/ \E o \in Ops : SeqStart(o)
    \/ \E o \in Ops, e \in RefreshExpiresIn : LoginOk(o, e)
    \/ \E o \in Ops : LoginFail(o, "login", FALSE)
    \/ \E o \in Ops, st \in RefreshStatuses : \E b \in BodiesOf(st) :
          Respond(o, st, b)
    \/ \E o \in Ops : BackoffDone(o)

SpecSequential == ColdInit /\ [][SeqNext]_vars

\* ----------------------------------------------- the operations of the facade
\* One operation is invoked on a constructed client, against every content
\* of the remote service within the bounds and every ending of makeRequest.
FacadeNext ==
    \/ Construct
    \/ \E s \in RemoteSecrets : RemoteAddSecret(s)
    \/ RemoteAddImport
    \/ \E s \in RemoteSecrets : RemoteAddImported(s)
    \/ \E op \in FacadeOps, args \in FacadeArgs : Invoke(op, args)
    \/ \E defined \in BOOLEAN, withImports \in BOOLEAN :
          RequestResolves(defined, withImports)
    \/ \E error \in RequestErrors : RequestRejects(error)

SpecFacade == ColdInit /\ [][FacadeNext]_vars

\* ------------------------------------------ the classification of a response
ClassifierNext ==
    \/ \E status \in ErrorStatuses, body \in Bodies : Receive(status, body)
    \/ ParseError

SpecClassifier == ColdInit /\ [][ClassifierNext]_vars

\* ---------------------------------------------- the requests of the router
\* One listing is shown and one request is handled, from the frontend or
\* from another HTTP client, with every set of fields.
RouterNext ==
    \/ \E rows \in SUBSET RemoteSecrets : List(rows)
    \/ \E origin \in Origins, route \in Routes, secretId \in Keys,
          fields \in SUBSET Fields : Handle(origin, route, secretId, fields)
    \/ ApiResolves
    \/ \E error \in RequestErrors \cup {TypeError} : ApiRejects(error)

SpecRouter == ColdInit /\ [][RouterNext]_vars

\* ------------------------------------- the operations of the frontend client
UiNext ==
    \/ \E op \in UiOps, workspaceId \in WorkspaceIds : UiInvoke(op, workspaceId)
    \/ BaseUrlResolves
    \/ BaseUrlRejects
    \/ FetchFails
    \/ \E status \in UiStatuses, body \in ErrorBodies \cup {"none"} :
          BackendAnswers(status, body)

SpecUi == ColdInit /\ [][UiNext]_vars

\* ----------------------------------------------- the body of updateSecret
UpdateNext ==
    \E secretData \in SecretData, secretId \in SecretNames :
        UpdateSecret(secretData, secretId)

SpecUpdate == ColdInit /\ [][UpdateNext]_vars

\* the secrets view alone
ViewNext ==
    \/ \E prop \in SecretPathProps, locked \in BOOLEAN : Render(prop, locked)
    \/ \E folderName \in FolderNames : navigateToFolder(folderName)
    \/ \E index \in -1..MaxDepth : navigateToBreadcrumb(index)
    \/ \E value \in EnvironmentSlugs : handleEnvironmentChange(value)

SpecView == ColdInit /\ [][ViewNext]_vars

\* the requests of the frontend client at the router of the backend plugin
RoutingNext ==
    \/ \E op \in UiOps, workspaceId \in WorkspaceIds, key \in SecretIds,
          options \in ClientOptions : ClientFetch(op, workspaceId, key, options)
    \/ RouterDispatch

SpecRouting == ColdInit /\ [][RoutingNext]_vars

\* ================================================================== claims
IsClientCredentials == credentials.type = "client-credentials"

LoginsInFlight == {o \in Ops : pc[o] \in {"login1", "login2"}}

Waiting == {o \in Ops : pc[o] \in {"wait1", "wait2"}}

\* an access token is stored and its expiry is in the future
TokenFresh(creds) ==
    /\ creds.accessToken # Undefined
    /\ creds.tokenExpiresAt # Undefined
    /\ DateNow < creds.tokenExpiresAt[1]

\* C1: once all the operations have been started on a client-credentials
\* client that held no access token, exactly one login call has been issued
\* in total, whatever the login latency, the 500 ms waits and the responses.
C1_OneLoginForColdStarts ==
    (\A o \in Ops : pc[o] # "idle") => loginCalls = 1

\* C2: at most one login call is in flight, the refresh flag is set exactly
\* while it is, so a call to authenticateWithClientCredentials that finds the
\* flag set issues no login request.
C2_AtMostOneLoginInFlight ==
    /\ Cardinality(LoginsInFlight) <= 1
    /\ tokenRefreshInProgress <=> LoginsInFlight # {}

C2_Witness ==
    /\ LoginsInFlight # {}
    /\ Waiting # {}

\* C3: a non-OK response with a status outside the retryable set, other than
\* a 401 on a client-credentials client, ends the request at once: no backoff
\* is scheduled and the classified error reaches the caller.
C3_NonRetryableStatusNotRetried ==
    \A o \in Ops :
        ( /\ lastStatus[o] # NoStatus
          /\ ~IsOk(lastStatus[o])
          /\ lastStatus[o] \notin retryStatusCodes
          /\ ~(lastStatus[o] = 401 /\ IsClientCredentials) )
        => /\ pc[o] = "failed"
           /\ result[o].error.status = lastStatus[o]

\* C4: a 401 answered to a static-token client is not retried: the request
\* fails at once, no backoff wait is scheduled.
C4_Static401NotRetried ==
    \A o \in Ops :
        (credentials.type = "api-token" /\ lastStatus[o] = 401)
        => pc[o] = "failed"

\* C5: a 503 is retried while retries remain, and a request answered 503,
\* 503, 503, 200 has made 4 attempts, returns the parsed result and has
\* waited 1000, 2000 and 4000 ms in that order.
C5_Retry503ThenSuccess ==
    \A o \in Ops :
        /\ (lastStatus[o] = 503 /\ retryCount[o] < 3) => pc[o] = "backoff"
        /\ (prior503[o] /\ lastStatus[o] = 503) =>
              delays[o] = SubSeq(<<1000, 2000, 4000>>, 1, Len(delays[o]))
        /\ (prior503[o] /\ retryCount[o] = 3 /\ lastStatus[o] = 200) =>
              /\ pc[o] = "done"
              /\ result[o].kind = "value"
              /\ delays[o] = <<1000, 2000, 4000>>

C5_Witness ==
    \E o \in Ops :
        /\ prior503[o]
        /\ retryCount[o] = 3
        /\ lastStatus[o] = 200
        /\ pc[o] = "done"

\* C6: a logical request makes at most 4 attempts (retry counter 0..3), every
\* retry that is scheduled raises the counter by one, and the caller gets one
\* outcome: a result, or the error the last attempt produced.
C6_AtMostFourAttempts ==
    \A o \in Ops :
        /\ retryCount[o] \in 0..3
        /\ Len(delays[o]) = retryCount[o] + (IF pc[o] = "backoff" THEN 1 ELSE 0)
        /\ pc[o] = "failed" =>
              /\ result[o].kind = "error"
              /\ result[o].error # NoError
              /\ result[o].error.attempt = retryCount[o]
        /\ pc[o] = "done" => result[o].kind \in {"value", "undefined"}
        /\ pc[o] \notin {"done", "failed"} => result[o] = NoResult

C6_Witness ==
    \E o \in Ops :
        /\ pc[o] = "failed"
        /\ retryCount[o] = 3
        /\ result[o].error.origin = "login"

\* C7: a client built from a configuration with a static token never issues
\* a login call and never waits for one, 401 responses included.
C7_StaticTokenNeverLogsIn ==
    (client = "ready" /\ config.auth_token = "ok") =>
        /\ loginCalls = 0
        /\ ~tokenRefreshInProgress
        /\ LoginsInFlight = {}
        /\ Waiting = {}

C7_Witness ==
    /\ client = "ready"
    /\ config.auth_token = "ok"
    /\ \E o \in Ops : lastStatus[o] = 401 /\ retryCount[o] > 0

\* the steps in which request o evaluates ensureValidToken on the
\* credentials of the state the step starts in
EvaluatesEnsure(o) ==
    \/ pc[o] \in {"idle", "backoff"} /\ pc'[o] # pc[o]
    \/ pc[o] = "wait1" /\ pc'[o] # "wait1"

\* the step in which the login of o's first ensureValidToken succeeds: the
\* second ensureValidToken looks at the credentials just stored
EvaluatesEnsureAfterLogin(o) ==
    /\ pc[o] = "login1"
    /\ credentials'.accessToken # credentials.accessToken

\* C8 as stated: on a client-credentials client an evaluation of
\* ensureValidToken issues no login call when the stored token is fresh and
\* exactly one when it is absent or expired.
C8_OneLoginWhenNotFresh ==
    [][\A o \in Ops :
          (IsClientCredentials /\ EvaluatesEnsure(o)) =>
              loginCalls' - loginCalls =
                  IF TokenFresh(credentials) THEN 0 ELSE 1]_vars

\* C8 amended: no login call when the stored token is fresh; when it is
\* absent or expired, exactly one login call if no refresh is in progress and
\* none if one is.
C8_OneLoginUnlessRefreshInProgress ==
    [][\A o \in Ops :
          /\ (IsClientCredentials /\ EvaluatesEnsure(o)) =>
                loginCalls' - loginCalls =
                    IF TokenFresh(credentials) \/ tokenRefreshInProgress
                    THEN 0 ELSE 1
          /\ EvaluatesEnsureAfterLogin(o) =>
                loginCalls' - loginCalls =
                    IF TokenFresh(credentials') THEN 0 ELSE 1]_vars

C8_Witness ==
    /\ loginCalls = 1
    /\ \E o \in Ops : pc[o] = "wait1"
    /\ ~TokenFresh(credentials)

\* C9: a configuration with neither auth_token nor universalAuth makes the
\* constructor throw 'Missing Infisical Authentication credentials'; no
\* client without a strategy exists and a failed construction is followed by
\* no network call.
C9_NoClientWithoutCredentials ==
    /\ ( /\ client # "unbuilt"
         /\ config.infisical
         /\ config.auth_token = "absent"
         /\ config.universalAuth = "absent" )
       => (client = "failed" /\ constructError = "MissingCredentials")
    /\ client = "ready" =>
          credentials.type \in {"api-token", "client-credentials"}
    /\ client # "ready" =>
          /\ loginCalls = 0
          /\ \A o \in Ops : pc[o] = "idle"

C9_Witness ==
    /\ client = "failed"
    /\ constructError = "MissingCredentials"

HasBothMethods == config.auth_token = "ok" /\ config.universalAuth = "ok"

\* C10 as stated: a configuration with both a static token and a client
\* id/secret pair is rejected at construction.
C10_BothMethodsRejected ==
    (client # "unbuilt" /\ HasBothMethods) => client = "failed"

\* C10 amended: a configuration with both methods is accepted and the static
\* token is used; every client holds exactly one method.
C10_StaticTokenWins ==
    /\ (client # "unbuilt" /\ HasBothMethods) =>
          /\ client = "ready"
          /\ credentials.type = "api-token"
    /\ client = "ready" =>
          \/ /\ credentials.type = "api-token"
             /\ credentials.apiToken # Undefined
             /\ credentials.clientId = Undefined
             /\ credentials.clientSecret = Undefined
          \/ /\ credentials.type = "client-credentials"
             /\ credentials.apiToken = Undefined
             /\ credentials.clientId # Undefined
             /\ credentials.clientSecret # Undefined

C10_Witness ==
    /\ client = "ready"
    /\ HasBothMethods
    /\ \E o \in Ops : pc[o] = "done"

\* C11: the credential kind chosen at construction from the configuration is
\* the kind of the client in every later state: no request, login, response
\* or error changes credentials.type.
C11_CredentialKindNeverChanges ==
    [][/\ client = "ready" => credentials'.type = credentials.type
       /\ client' = "ready" =>
              credentials'.type = getCredentialsFromConfig(config).creds.type]_vars

\* a client-credentials client has logged in, had its token force-expired
\* by a 401 and seen a request fail
C11_Witness ==
    /\ client = "ready"
    /\ IsClientCredentials
    /\ loginCalls > 0
    /\ credentials.tokenExpiresAt = Some(0)
    /\ \E o \in Ops : pc[o] = "failed"

\* C12: on a client-credentials client accessToken and tokenExpiresAt are
\* both absent or both present, in every reachable state.
C12_TokenAndExpiryTogether ==
    IsClientCredentials =>
        (credentials.accessToken = Undefined
            <=> credentials.tokenExpiresAt = Undefined)

\* the import blocks of a secrets response
ImportsOf(resp) ==
    IF resp.defined /\ resp.imports # Undefined THEN resp.imports[1] ELSE << >>

RECURSIVE SumLen(_)
SumLen(blocks) ==
    IF blocks = << >> THEN 0 ELSE Len(Head(blocks)) + SumLen(Tail(blocks))

\* C13: the secrets getSecrets returns are the native secrets of the
\* response, unchanged and in order, followed by the secrets of the import
\* blocks in block order and in order within a block, each with readonly =
\* TRUE whatever flag it came with; nothing is dropped or merged, so the
\* length is |native| + the sum of the blocks' lengths.
C13_NativeThenImportsReadonly ==
    (facadeOp = "getSecrets" /\ facadeResult.kind = "value") =>
        LET native == secretsResponse.secrets
            imports == ImportsOf(secretsResponse)
            out == facadeResult.value.secrets
        IN  /\ Len(out) = Len(native) + SumLen(imports)
            /\ \A i \in 1..Len(native) : out[i] = native[i]
            /\ \A b \in 1..Len(imports) : \A j \in 1..Len(imports[b]) :
                   LET p == Len(native) + SumLen(SubSeq(imports, 1, b - 1)) + j
                   IN  /\ out[p].key = imports[b][j].key
                       /\ out[p].readonly = TRUE

\* getSecrets returned a native secret and the secrets of two import blocks,
\* one of them with the key of the native secret and marked not readonly by
\* the remote service
C13_Witness ==
    /\ facadeOp = "getSecrets"
    /\ facadeResult.kind = "value"
    /\ Len(secretsResponse.secrets) > 0
    /\ LET imports == ImportsOf(secretsResponse)
       IN  /\ Len(imports) = 2
           /\ \A b \in 1..2 : Len(imports[b]) > 0
           /\ \E b \in 1..2 : \E j \in 1..Len(imports[b]) :
                  /\ ~imports[b][j].readonly
                  /\ imports[b][j].key = secretsResponse.secrets[1].key
                  /\ ~secretsResponse.secrets[1].readonly

\* C14: when a makeRequest call of a facade operation ends in an error, the
\* operation is over and its caller has received that same error, never a
\* value.
C14_FacadeSurfacesRequestError ==
    requestOutcome.kind = "error" =>
        /\ facadePending = 0
        /\ facadeResult.kind = "error"
        /\ facadeResult.error = requestOutcome.error

\* getSecrets got its secrets and then failed on its folders request
C14_Witness ==
    /\ facadeOp = "getSecrets"
    /\ secretsResponse.defined
    /\ requestOutcome.kind = "error"
    /\ facadeResult.kind = "error"

\* C15: deleteSecret of the frontend client rejects when the backend answers
\* with a non-OK response: once the answer is in, its caller has an error.
C15_DeleteRejectsOnFailure ==
    (/\ uiCall.op = "deleteSecret"
     /\ uiStage = "settled"
     /\ backendAnswer # NoAnswer
     /\ ~IsOk(backendAnswer.status))
        => uiResult.kind = "error"

\* the error type the classifier gives a text body, by status
NameByStatus(status) ==
    CASE status = 404 -> "NotFoundError"
      [] status = 409 -> "ConflictError"
      [] status = 400 -> "InputError"
      [] OTHER -> "Error"

\* C16 (as stated): a JSON body with a message gives a generic API error
\* with status and message; every other readable body is taken as text and
\* mapped by status, 404 to NotFound, 409 to Conflict, 400 to InvalidInput,
\* any other status to a generic API error with status and detail.
C16_JsonMessageElseByStatus ==
    (classified # NoError /\ response.body.readable) =>
        /\ classified.status = response.status
        /\ IF response.body.json /\ response.body.message
           THEN classified.name = "Error" /\ classified.text = "message"
           ELSE /\ classified.name = NameByStatus(response.status)
                /\ classified.text = "text"

\* C16 (amended): a response with a JSON content type gives a generic API
\* error with the status and the message of the body, or 'Unknown error'
\* when the body has no message, whatever the status; a response of another
\* content type is taken as text and mapped by status.
C16_JsonGenericElseByStatus ==
    (classified # NoError /\ response.body.readable) =>
        /\ classified.status = response.status
        /\ IF response.body.json
           THEN /\ classified.name = "Error"
                /\ classified.text =
                       IF response.body.message THEN "message"
                       ELSE "Unknown error"
           ELSE /\ classified.name = NameByStatus(response.status)
                /\ classified.text = "text"

\* a 404 with a JSON body that has no message has been classified
C16_Witness ==
    /\ classified # NoError
    /\ response.status = 404
    /\ response.body.readable
    /\ response.body.json
    /\ ~response.body.message

\* C17: parseErrorResponse returns an error for every non-OK response and
\* raises none; when the body cannot be read or parsed the error is the
\* generic one with 'Failed to parse error response' and the status.
C17_ClassificationIsTotal ==
    classified # NoError =>
        /\ classified.origin = "api"
        /\ classified.status = response.status
        /\ ~response.body.readable =>
              /\ classified.name = "Error"
              /\ classified.text = "Failed to parse error response"

\* a response with a JSON content type and a body that does not parse has
\* been classified
C17_Witness ==
    /\ classified # NoError
    /\ response.body.json
    /\ ~response.body.readable

\* the listing shows the secret with this key as readonly, and no secret of
\* that key that is not
ReadonlyListed(key) ==
    /\ \E row \in listed : row.readonly /\ row.key = key
    /\ ~\E row \in listed : ~row.readonly /\ row.key = key

\* C18: no update and no delete is issued by the client for a secret that
\* the listing returned with readonly = TRUE.
C18_NoMutationOfReadonly ==
    \A i \in 1..Len(apiCalls) :
        apiCalls[i].op \in {"updateSecret", "deleteSecret"}
            => ~ReadonlyListed(apiCalls[i].secretId)

\* the fields a route requires
Required(route) ==
    {"workspaceId"}
    \cup (IF route \in {"POST /secrets", "PATCH /secrets/:secretId"}
          THEN {"secretKey", "secretValue"} ELSE {})
    \cup (IF route = "DELETE /secrets/:secretId" THEN {"environment"} ELSE {})

\* C19: a request that lacks a required field is answered with 400 and no
\* operation of infisicalApi is invoked; on POST /secrets and PATCH
\* /secrets/:secretId the key and the value are checked first, with the
\* message 'Key and value are required fields'.
C19_MissingFieldIs400 ==
    (httpRequest # NoRequest
        /\ ~(Required(httpRequest.route) \subseteq httpRequest.fields)) =>
        /\ httpResponse.status = 400
        /\ apiCalls = << >>
        /\ (/\ httpRequest.route \in {"POST /secrets", "PATCH /secrets/:secretId"}
            /\ ~({"secretKey", "secretValue"} \subseteq httpRequest.fields))
              => httpResponse.message = "Key and value are required fields"

\* a PATCH without a workspace id and without a value has been answered
C19_Witness ==
    /\ httpRequest.route = "PATCH /secrets/:secretId"
    /\ "workspaceId" \notin httpRequest.fields
    /\ "secretValue" \notin httpRequest.fields
    /\ "secretKey" \in httpRequest.fields
    /\ httpResponse.status = 400

\* C20: an operation of the frontend client that takes a workspace id, called
\* with an empty one, has failed with 'No workspace ID provided' and neither
\* asked for the base URL nor called fetch.
C20_EmptyWorkspaceIdFailsFirst ==
    (uiCall.op \in WorkspaceScoped /\ uiCall.workspaceId = "") =>
        /\ uiStage = "settled"
        /\ uiResult = [kind |-> "error", message |-> "No workspace ID provided"]
        /\ uiFetches = 0
        /\ backendAnswer = NoAnswer

\* deleteSecret has been called with an empty workspace id
C20_Witness ==
    /\ uiCall.op = "deleteSecret"
    /\ uiCall.workspaceId = ""
    /\ uiStage = "settled"

\* a request starts while the client holds an unexpired access token
StartsOnFreshToken(o) ==
    /\ pc[o] = "idle"
    /\ pc'[o] # "idle"
    /\ IsClientCredentials
    /\ TokenFresh(credentials)

\* the request of o is answered with 200
AnsweredOk(o) ==
    /\ pc[o] = "http"
    /\ pc'[o] # "http"
    /\ lastStatus'[o] = 200

C22_WaitingCallerSendsAfterRefresh ==
    [][\A o \in Ops :
          (IsClientCredentials /\ o \in Waiting /\ pc'[o] = "http") =>
              /\ ~tokenRefreshInProgress
              /\ TokenFresh(credentials)
              /\ sentToken'[o] = credentials.accessToken]_vars

\* the request of o is answered with 401 on a client-credentials client
\* while retries remain
Answered401(o) ==
    /\ pc[o] = "http"
    /\ pc'[o] # "http"
    /\ lastStatus'[o] = 401
    /\ IsClientCredentials
    /\ retry
    /\ retryCount[o] < maxRetries

\* C23: a 401 answer on a client-credentials client with retries remaining
\* sets the stored expiry to 0 and schedules the retry after
\* retryDelay * 2^attempt; the retried attempt logs in before it sends, so no
\* retried request is issued while the force-expired token is still the
\* stored one: it carries a token obtained after the 401.
C23_RetryAfter401CarriesNewToken ==
    [][\A o \in Ops :
          /\ Answered401(o) =>
                /\ credentials'.tokenExpiresAt = Some(0)
                /\ pc'[o] = "backoff"
                /\ delays'[o] =
                      Append(delays[o], retryDelay * 2 ^ retryCount[o])
          /\ (/\ IsClientCredentials
              /\ pc[o] # "http"
              /\ pc'[o] = "http"
              /\ retryCount'[o] > 0) =>
                /\ credentials'.tokenExpiresAt # Some(0)
                /\ sentToken'[o] # Undefined]_vars

\* the step in which the login call of o ends
LoginEnds(o) ==
    /\ pc[o] \in {"login1", "login2"}
    /\ pc'[o] # pc[o]

\* C24 (as stated): the access token and the expiry are written only by the
\* refresh: a step that changes either field is the end of a login call.
C24_OnlyRefreshWritesToken ==
    [][(\/ credentials'.accessToken # credentials.accessToken
        \/ credentials'.tokenExpiresAt # credentials.tokenExpiresAt) =>
          \E o \in Ops : LoginEnds(o)]_vars

\* C24 (amended): the access token is written only by the refresh; the expiry
\* is written by the refresh and by the 401 branch of the request executor,
\* which sets it to 0 and leaves the access token alone; every other step
\* leaves both fields unchanged.
C24_RefreshAnd401WriteExpiry ==
    [][/\ credentials'.accessToken # credentials.accessToken =>
             \E o \in Ops : LoginEnds(o)
       /\ credentials'.tokenExpiresAt # credentials.tokenExpiresAt =>
             \/ \E o \in Ops : LoginEnds(o)
             \/ /\ credentials'.tokenExpiresAt = Some(0)
                /\ \E o \in Ops : Answered401(o)]_vars

\* a 401 answer has set the expiry of a stored token to 0
C24_Witness ==
    /\ IsClientCredentials
    /\ credentials.accessToken # Undefined
    /\ credentials.tokenExpiresAt = Some(0)
    /\ \E o \in Ops : pc[o] = "backoff" /\ lastStatus[o] = 401

\* C25: a login call that is answered with a non-OK status is not retried:
\* the step in which it fails ends the operation with the authentication
\* error, and no backoff is scheduled.
C25_LoginFailureNotRetried ==
    [][\A o \in Ops :
          (pc[o] \in {"login1", "login2"} /\ pc'[o] \in {"backoff", "failed"})
              => /\ pc'[o] = "failed"
                 /\ result'[o].kind = "error"
                 /\ result'[o].error.origin = "login"]_vars

\* the request of o gets no response
NetworkFails(o) ==
    /\ pc[o] = "http"
    /\ pc'[o] # "http"
    /\ lastStatus'[o] = NoStatus

\* the request of o is answered with a retryable status
AnsweredRetryable(o) ==
    /\ pc[o] = "http"
    /\ pc'[o] # "http"
    /\ lastStatus'[o] \in retryStatusCodes

\* the retry of attempt retryCount[o] is scheduled after retryDelay * 2^attempt
RetryScheduled(o) ==
    /\ pc'[o] = "backoff"
    /\ retryCount[o] < maxRetries
    /\ delays'[o] = Append(delays[o], retryDelay * 2 ^ retryCount[o])
    /\ result'[o] = result[o]

\* C26: a request that gets no response is retried with the delay and the
\* budget of a retryable status: while retries remain the retry is scheduled
\* after retryDelay * 2^attempt, and the failure is surfaced once they are
\* spent; a failure whose message contains 'Invalid credentials' is not
\* retried and is surfaced by the attempt in which it occurred.
C26_NetworkFailureRetriedUnlessInvalid ==
    [][/\ \A rc \in 0..maxRetries, inv \in BOOLEAN :
             shouldRetry(ErrorOf("fetch", "Error", NoStatus, "fetch failed",
                                 inv, rc), NoStatus) = ~inv
       /\ \A o \in Ops :
             /\ NetworkFails(o) =>
                   \/ RetryScheduled(o)
                   \/ /\ pc'[o] = "failed"
                      /\ result'[o].kind = "error"
                      /\ result'[o].error.origin = "fetch"
                      /\ result'[o].error.attempt = retryCount[o]
                      /\ \/ result'[o].error.invalidCredentials
                         \/ retryCount[o] = maxRetries
             /\ AnsweredRetryable(o) =>
                   \/ RetryScheduled(o)
                   \/ pc'[o] = "failed" /\ retryCount[o] = maxRetries]_vars

\* on a static-token client a failure with 'Invalid credentials' in its
\* message has ended the operation in its second attempt, retries remaining
C26_Witness ==
    \E o \in Ops :
        /\ credentials.type = "api-token"
        /\ pc[o] = "failed"
        /\ result[o].error.origin = "fetch"
        /\ result[o].error.invalidCredentials
        /\ result[o].error.attempt = 1
        /\ delays[o] = <<retryDelay>>

\* a call of the request is in flight: the request itself, or the login call
\* its attempt issued
InFlight(o) == pc[o] \in {"http", "login1", "login2"}

\* C27: the retries of a request are sequential.  The request has one
\* position, so at most one of its calls is in flight; a retry is scheduled
\* only by the failure of the call in flight, once per failed attempt (the
\* k-th delay is retryDelay * 2^(k-1), and there are as many delays as
\* attempts that failed); and the next attempt starts only when that backoff
\* has elapsed, with the counter raised by one.
C27_RetriesAreSequential ==
    [][\A o \in Ops :
          /\ \A k \in 1..Len(delays[o]) :
                delays[o][k] = retryDelay * 2 ^ (k - 1)
          /\ Len(delays[o]) =
                retryCount[o] + (IF pc[o] = "backoff" THEN 1 ELSE 0)
          /\ (pc[o] # "backoff" /\ pc'[o] = "backoff") =>
                /\ InFlight(o)
                /\ delays'[o] =
                      Append(delays[o], retryDelay * 2 ^ retryCount[o])
          /\ retryCount'[o] # retryCount[o] =>
                /\ pc[o] = "backoff"
                /\ pc'[o] # "backoff"
                /\ retryCount'[o] = retryCount[o] + 1
                /\ delays'[o] = delays[o]
          /\ (~InFlight(o) /\ InFlight(o)') =>
                pc[o] \in {"idle", "backoff", "wait1", "wait2"}
          /\ pc[o] \in {"done", "failed"} => pc'[o] = pc[o]]_vars

\* the third attempt has failed and its retry is scheduled
C27_Witness ==
    \E o \in Ops :
        /\ pc[o] = "backoff"
        /\ retryCount[o] = 2
        /\ delays[o] = <<retryDelay, 2 * retryDelay, 4 * retryDelay>>

\* the states of the facade's state machine, read off the position of o
Authenticating(o) == pc[o] \in {"wait1", "wait2", "login1", "login2"}

\* C28: an operation goes Idle -> Authenticating -> Requesting ->
\* {Succeeded | Retrying | Failed}.  It enters Retrying from Requesting only
\* after a 401 on a client-credentials client, a retryable status or a
\* network failure (or from Authenticating, when its login call failed); it
\* leaves Retrying towards another request; it reaches Succeeded only from
\* Requesting; Succeeded and Failed are terminal.
C28_OperationStateMachine ==
    [][\A o \in Ops :
          /\ (pc[o] = "idle" /\ pc'[o] # "idle") =>
                Authenticating(o)' \/ pc'[o] = "http"
          /\ (pc[o] # "backoff" /\ pc'[o] = "backoff") =>
                \/ pc[o] \in {"login1", "login2"}
                \/ /\ pc[o] = "http"
                   /\ \/ lastStatus'[o] = NoStatus
                      \/ lastStatus'[o] \in retryStatusCodes
                      \/ lastStatus'[o] = 401 /\ IsClientCredentials
          /\ (pc[o] = "backoff" /\ pc'[o] # "backoff") =>
                Authenticating(o)' \/ pc'[o] = "http"
          /\ (pc[o] # "done" /\ pc'[o] = "done") => pc[o] = "http"
          /\ pc[o] \in {"done", "failed"} =>
                /\ pc'[o] = pc[o]
                /\ result'[o] = result[o]]_vars

\* an access token is stored and the time, in ms, is before its expiry
StoredAndBeforeExpiry ==
    IF credentials.accessToken = Undefined
          \/ credentials.tokenExpiresAt = Undefined
    THEN FALSE
    ELSE now * 1000 < credentials.tokenExpiresAt[1]

\* C29: a login answered at time now (seconds) with expiresIn = E stores the
\* expiry now * 1000 + (E - 300) * 1000 ms, and a request takes the token as
\* valid (it is sent at once, without a login call) exactly when an access
\* token is stored and the time is strictly before the stored expiry.
C29_ExpiryAndValidity ==
    [][/\ \A E \in ExpiresInValues :
             StoreToken(credentials, loginCalls, E).tokenExpiresAt =
                 Some(now * 1000 + (E - 300) * 1000)
       /\ \A o \in Ops :
             /\ (LoginEnds(o) /\ credentials' # credentials) =>
                   /\ credentials'.accessToken # Undefined
                   /\ \E E \in ExpiresInValues :
                         credentials'.tokenExpiresAt =
                             Some(now * 1000 + (E - 300) * 1000)
             /\ (IsClientCredentials /\ EvaluatesEnsure(o)) =>
                   /\ isTokenExpired(credentials) = ~StoredAndBeforeExpiry
                   /\ (pc'[o] = "http" /\ loginCalls' = loginCalls)
                         = StoredAndBeforeExpiry]_vars

\* the clock has reached the expiry of the stored token, and the attempt
\* that was started at that instant logs in again
C29_Witness ==
    /\ IsClientCredentials
    /\ credentials.accessToken # Undefined
    /\ credentials.tokenExpiresAt = Some(now * 1000)
    /\ now > 1
    /\ loginCalls = 2
    /\ \E o \in Ops : pc[o] = "login1" /\ retryCount[o] = 1

\* C30: getSecrets makes its two calls one after the other for the
\* (workspaceId, path, environment) it was invoked with: GET /v3/secrets/raw
\* first, GET /v1/folders only in the step in which the first call resolved,
\* and never both pending; when either call is rejected getSecrets rejects
\* with no value at all, and it returns a value only after both resolved.
C30_SecretsThenFoldersOrFail ==
    [][facadeOp = "getSecrets" =>
          /\ Len(requests) \in 1..2
          /\ requests[1] =
                [method |-> "GET", path |-> "/v3/secrets/raw",
                 workspaceId |-> facadeArgs.workspaceId,
                 environment |-> facadeArgs.environment,
                 secretPath |-> facadeArgs.path]
          /\ Len(requests) = 2 =>
                requests[2] =
                    [method |-> "GET", path |-> "/v1/folders",
                     workspaceId |-> facadeArgs.workspaceId,
                     environment |-> facadeArgs.environment,
                     secretPath |-> facadeArgs.path]
          /\ facadePending \in {0, Len(requests)}
          /\ Len(requests') > Len(requests) =>
                /\ facadePending = 1
                /\ requestOutcome'.kind \in {"value", "undefined"}
                /\ facadePending' = 2
          /\ requestOutcome.kind = "error" =>
                /\ facadePending = 0
                /\ facadeResult.kind = "error"
                /\ facadeResult.value = NoValue
          /\ facadeResult.kind = "value" =>
                /\ Len(requests) = 2
                /\ facadePending = 0
                /\ requestOutcome.kind = "value"]_vars

\* getSecrets for /app in prod received secrets and then failed on its
\* folders request: its caller got the error and none of the secrets
C30_Witness ==
    /\ facadeOp = "getSecrets"
    /\ facadeArgs.path = "/app"
    /\ Len(requests) = 2
    /\ Len(secretsResponse.secrets) > 0
    /\ requestOutcome.kind = "error"
    /\ facadeResult.kind = "error"
    /\ facadeResult.value = NoValue

\* C31: updateSecret sends PATCH /v3/secrets/raw/{secretId} with the key, the
\* value and the other fields of its request data; the body has a
\* newSecretName exactly when the key differs from secretId, and it is then
\* the key.
C31_NewSecretNameIffRenamed ==
    updateCall.called =>
        LET body == patchRequest.body
            data == updateCall.secretData
        IN  /\ patchRequest.method = "PATCH"
            /\ patchRequest.path = <<"/v3/secrets/raw", updateCall.secretId>>
            /\ {"secretKey", "secretValue"} \subseteq DOMAIN body
            /\ body.secretKey = data.secretKey
            /\ body.secretValue = data.secretValue
            /\ ("environment" \in DOMAIN body) = (data.environment # Undefined)
            /\ ("newSecretName" \in DOMAIN body)
                  = (data.secretKey # updateCall.secretId)
            /\ "newSecretName" \in DOMAIN body =>
                  body.newSecretName = data.secretKey

\* the caller's data names a newSecretName of its own while its key is the
\* secretId: the body that was sent has none
C31_Witness ==
    /\ updateCall.called
    /\ updateCall.secretData.secretKey = updateCall.secretId
    /\ updateCall.secretData.newSecretName # Undefined
    /\ "newSecretName" \notin DOMAIN patchRequest.body

\* C32: every request a client-credentials client has in flight carries an
\* access token that a completed login returned: none was sent while the
\* stored access token was absent.
C32_EveryRequestCarriesToken ==
    IsClientCredentials =>
        \A o \in Ops :
            pc[o] = "http" =>
                /\ sentToken[o] # Undefined
                /\ sentToken[o][1][2] \in 1..loginCalls

\* C33: a 401 that answers a request sent with an older token than the one
\* now stored does not touch the stored token: the access token and its
\* expiry are as before, so the newer token stays valid and no login follows
\* from that answer.
C33_Stale401KeepsNewerToken ==
    [][\A o \in Ops :
          (/\ IsClientCredentials
           /\ pc[o] = "http"
           /\ pc'[o] # "http"
           /\ lastStatus'[o] = 401
           /\ sentToken[o] # Undefined
           /\ sentToken[o] # credentials.accessToken) =>
              /\ credentials'.accessToken = credentials.accessToken
              /\ credentials'.tokenExpiresAt = credentials.tokenExpiresAt]_vars

\* C34: at the step in which the login call of an attempt succeeds the token
\* just stored is valid, whatever expiresIn the answer carried: the second
\* ensureValidToken of the attempt issues no login call and the request is
\* sent in that step.
C34_TokenValidAfterLogin ==
    [][\A o \in Ops :
          EvaluatesEnsureAfterLogin(o) =>
              /\ TokenFresh(credentials')
              /\ loginCalls' = loginCalls
              /\ pc'[o] = "http"
              /\ sentToken'[o] = credentials'.accessToken]_vars

\* C35: the refresh flag is set exactly while a login call is in flight; the
\* step in which a login call ends, with a token or with a failure, clears it
\* unless the same step issues the next login call; and an evaluation of
\* ensureValidToken that finds no valid token and no login in flight issues a
\* login call instead of waiting.
C35_FlagExactlyWhileLoginInFlight ==
    [][/\ tokenRefreshInProgress = (LoginsInFlight # {})
       /\ \A o \in Ops :
             /\ (LoginEnds(o) /\ pc'[o] \notin {"login1", "login2"}) =>
                   ~tokenRefreshInProgress'
             /\ (/\ IsClientCredentials
                 /\ EvaluatesEnsure(o)
                 /\ ~TokenFresh(credentials)
                 /\ LoginsInFlight = {}) =>
                   /\ pc'[o] \in {"login1", "login2"}
                   /\ loginCalls' = loginCalls + 1
                   /\ tokenRefreshInProgress']_vars

\* a login call failed, and the retry of the operation has a login call of
\* its own in flight
C35_Witness ==
    \E o \in Ops :
        /\ pc[o] = "login1"
        /\ retryCount[o] = 1
        /\ loginCalls = 2
        /\ credentials.accessToken = Undefined
        /\ tokenRefreshInProgress

\* C36: a login that fails leaves the stored access token and expiry as they
\* were when the refresh started: nothing writes them while the login call
\* of the one request is in flight, and the step in which the call fails (a
\* non-OK answer or no answer) writes neither; without a client id the
\* routine throws before it issues a login call.
C36_FailedLoginKeepsToken ==
    [][/\ IsClientCredentials =>
             authenticateWithClientCredentials(
                 [credentials EXCEPT !.clientId = Undefined], FALSE) = "throw"
       /\ \A o \in Ops :
             (pc[o] \in {"login1", "login2"}
                 /\ pc'[o] \in {pc[o], "backoff", "failed"}) =>
                 /\ credentials'.accessToken = credentials.accessToken
                 /\ credentials'.tokenExpiresAt = credentials.tokenExpiresAt]_vars

\* the second login call of the client failed and the token of the first is
\* still stored
C36_Witness ==
    /\ IsClientCredentials
    /\ loginCalls = 2
    /\ LoginsInFlight = {}
    /\ credentials.accessToken = Some(<<"access", 1>>)
    /\ credentials.tokenExpiresAt # Undefined
    /\ \E o \in Ops : pc[o] \in {"backoff", "failed"} /\ retryCount[o] = 1

\* the segments of one path begin the segments of another
IsSegmentPrefix(base, path) ==
    LET b == PathParts(base)
        p == PathParts(path)
    IN  Len(b) <= Len(p) /\ SubSeq(p, 1, Len(b)) = b

\* secretPath is given and has no leading "+"
NavigationDisabledByProp ==
    /\ secretPath # Undefined
    /\ secretPath # Some(<< >>)
    /\ ~startsWith(secretPath[1], <<"+">>)

\* C37: in the secrets view, after any sequence of folder clicks, breadcrumb
\* clicks and environment changes, the segments of the base path are a prefix
\* of the segments of the current path, and when secretPath is given without
\* a leading "+" the current path equals the base path.
C37_CurrentPathWithinBasePath ==
    /\ IsSegmentPrefix(basePath, currentPath)
    /\ (mounted /\ NavigationDisabledByProp) => currentPath = basePath

\* the view was navigated below a base path that is not the root
C37_Witness ==
    /\ mounted
    /\ allowNavigation
    /\ basePath # Slash
    /\ Len(PathParts(currentPath)) > Len(PathParts(basePath))
    /\ selectedEnvironment # Undefined

\* C38: every request the frontend InfisicalClient can issue (getWorkspaces,
\* getEnvironments, getSecrets, getSecretByKey, createSecret, updateSecret,
\* deleteSecret) uses an HTTP method and path that the backend router
\* registers: no dispatched request is left without a route.
C38_EveryClientRequestHasRoute ==
    dispatched # Undefined => dispatched[1] # NoRoute

\* every operation but getWorkspaces is taken by the route of its name
C38_WorkspaceScopedRequestsHaveRoutes ==
    (dispatched # Undefined /\ clientFetch.op \in WorkspaceScoped) =>
        dispatched[1] =
            CASE clientFetch.op = "getEnvironments" -> "GET /environments"
              [] clientFetch.op = "getSecrets" -> "GET /secrets"
              [] clientFetch.op = "getSecretByKey" -> "GET /secrets/:secretId"
              [] clientFetch.op = "createSecret" -> "POST /secrets"
              [] clientFetch.op = "updateSecret" -> "PATCH /secrets/:secretId"
              [] clientFetch.op = "deleteSecret" -> "DELETE /secrets/:secretId"

====
